---- MODULE Spec2Model ----
(***************************************************************************)
(* The restake yield aggregator: circuit breaker, fetch, filters, request. *)
(*                                                                         *)
(* Spec      the circuit breaker (package circuitbreaker,                  *)
(*           src/unnamed/part_002 lines 276-588) driven by non-overlapping *)
(*           calls of Check, Reset, GetState and LastGoodMetrics, with the *)
(*           passage of time and the trip callback's goroutines.           *)
(* HistSpec  the same breaker fed passing batches until its history of     *)
(*           100 snapshots is full and beyond.                             *)
(* ConcSpec  two callers inside Check at once.                             *)
(* FetchSpec MultiChainClient.Fetch (src/internal/fetch/multichain.go)     *)
(*           with its chain and provider tasks and its cache, and the      *)
(*           server's fetchAllMetrics (src/unnamed/part_004 lines 752-785).*)
(* ReqSpec   Server.handleRequest (src/unnamed/part_004 lines 509-640):    *)
(*           validation, the breaker, the fallback and the aggregation.    *)
(* ValidSpec package validation (second half of                            *)
(*           src/internal/enterprise/metrics_export.go): the sequential    *)
(*           and the concurrent filter and the confidence scores.          *)
(* AggSpec   package aggregate (src/internal/fetch/client.go): Weighted    *)
(*           and WeightedParallel.                                         *)
(* FnSpec    the other functions of package aggregate: the median, the     *)
(*           trimmed mean, the average and the validated variants.         *)
(* PkgSpec   AggSpec and FnSpec together.                                  *)
(*                                                                         *)
(* Numbers.  APY and TVL are float64 in the source.  The model keeps them  *)
(* as integers in a fixed unit; a quotient the code stores (the weighted   *)
(* average APY of a snapshot) is rounded down to the unit, and a quotient  *)
(* the code only compares with a threshold is compared exactly by cross    *)
(* multiplication (the divisor is positive wherever the code divides).     *)
(* The breaker's time is counted in milliseconds: time.Now() is the        *)
(* variable now.  The fetch clock counts minutes.                          *)
(***************************************************************************)
EXTENDS Integers, Sequences, FiniteSets, Bags, TLC

\* ------------------------------------------------------------------ bounds
MaxTime == 2          \* the clock stops advancing here
MaxBatch == 2         \* longest batch offered to Check
MaxHistory == 2       \* Check is offered only while the history is shorter
MaxPending == 1       \* Check is offered only while fewer callbacks are pending
MaxSeconds == 1       \* the capacity runs stop the clock after this many seconds
MaxMinutes == 6       \* the fetch clock stops advancing here
MaxValid == 5         \* longest batch of valid metrics given to the filters
MaxTasks == 3         \* longest batch given to the weighted aggregations

\* ------------------------------------------------- configuration (tests)
MaxAPY == 5                \* Thresholds.MaxAPY
MaxTVLChangeNum == 1       \* Thresholds.MaxTVLChange = 1/2
MaxTVLChangeDen == 2
MaxStdDevDen == 4          \* Thresholds.MaxStdDevMultiple = n/4, n chosen in Init
resetDelay == 1            \* CircuitBreaker.resetDelay, milliseconds
maxHistorySize == 100      \* addToHistory's capacity
TicksPerSecond == 1000     \* the clock counts milliseconds
cacheTTL == 5              \* MultiChainClient.cacheTTL, minutes
DefaultWeight == 1         \* Fetch's weight for a chain without configuration
minBoundWidth == 5         \* filterOutliers' 0.005, in thousandths
workerCount == 4           \* FilterInvalidConcurrently's workerCount
parallelThreshold == 100   \* below it FilterInvalidConcurrently runs sequentially
APYUnit == 1000            \* the filters' APY is counted in thousandths

StateClosed == 0
StateOpen == 1
StateHalfOpen == 2

\* the breakers constructed
MinProvidersSet == {1, 2}
SuccessThresholds == {1, 2}
StdDevNums == {0, 3}           \* unset, and 3/4

\* model.Metric, the fields the breaker reads or writes
Metric(p, apy, tvl, t) ==
    [Provider |-> p, APY |-> apy, TVL |-> tvl, PointsPerETH |-> 0, CollectedAt |-> t]

\* the metrics offered: APY below, at and above MaxAPY, TVL 1 and 3
Metrics == {Metric("p1", 1, 1, 0), Metric("p2", MaxAPY, 3, 0),
            Metric("p3", MaxAPY + 1, 3, 0)}

SeqsUpTo(S, n) == UNION {[1..k -> S] : k \in 0..n}

Batches == SeqsUpTo(Metrics, MaxBatch)

VARIABLES
    state,            \* cb.state
    lastTrip,         \* cb.lastTrip
    metricsHistory,   \* cb.metricsHistory
    successCount,     \* cb.successCount
    thresholds,       \* cb.thresholds (MinProviders, MaxStdDevMultiple numerator)
    successThreshold, \* cb.successThreshold
    onTripCallback,   \* whether a callback is registered
    callbacks,        \* bag of callback goroutines started and not yet run
    now,              \* the clock
    call,             \* the latest call: its name and the batch it was given
    ret,              \* what the latest call returned
    lastGood,         \* history variable: the latest batch that passed Check
    streak,           \* history variable: successive nil Checks of a recovery
    goroutines,       \* overlapping Checks: each caller's position and locals
    completed,        \* history variable: the Checks that returned nil, in order
    mode,             \* the server's fetch path: "multi" or "single"
    clock,            \* the fetch clock, minutes
    cancelled,        \* the parent context of the running fetch is cancelled
    cachedData,       \* c.cachedData
    cacheTime,        \* c.cacheTime
    upstreamAt,       \* history variable: when each cached batch came from upstream
    fetchPc,          \* the fetch: "idle", "collect", "single", "returned" (just now)
    chainPc,          \* each chain task: "none", "start", "wait", "done"
    provPc,           \* each provider task: "none", "running", or how it ended
    partial,          \* each fan-in's metrics and errors so far
    resultCh,         \* Fetch's result channel
    allMetrics,       \* Fetch's allMetrics
    errors,           \* Fetch's errors (the chains that failed)
    fetchRet,         \* what the latest fetch returned
    enableValidation,      \* s.config.EnableValidation
    enableCircuitBreaker,  \* s.config.EnableCircuitBreaker
    reqPc,            \* handleRequest: "idle", "check", "lastgood", "aggregate"
    reqMetrics,       \* handleRequest's metrics
    reqLog,           \* history variable: what the running request did so far
    response,         \* what the latest request was answered
    vMetrics,         \* the batch given to the filters
    vOpts,            \* the ValidationOptions given to the filters
    vNow,             \* the time of the evaluation, seconds
    vPc,              \* FilterInvalidConcurrently: "idle", "collect", "returned"
    workerPc,         \* its workers: "none", "run", "done"
    resultChan,       \* its resultChan
    validMetrics,     \* its validMetrics
    seqOut,           \* what FilterInvalidWithOptions returned, and its valid
    concOut,          \* what FilterInvalidConcurrently returned
    scored,           \* what CalculateConfidenceScores returned
    aggMetrics,       \* the batch given to Weighted and WeightedParallel
    ctxDone,          \* the context given to WeightedParallel is cancelled
    taskPc,           \* WeightedParallel's goroutines: "none", "run", "done"
    acc,              \* its shared sums, count and latest timestamp
    aggOut            \* what Weighted and WeightedParallel returned

\* the variables of the overlapping callers
conc == <<goroutines, completed>>

\* the variables of the fetch orchestrators
fetch == <<mode, clock, cancelled, cachedData, cacheTime, upstreamAt, fetchPc,
           chainPc, provPc, partial, resultCh, allMetrics, errors, fetchRet>>

\* the variables of the request handler
request == <<enableValidation, enableCircuitBreaker, reqPc, reqMetrics, reqLog,
             response>>

\* the variables of the validation filters
validation == <<vMetrics, vOpts, vNow, vPc, workerPc, resultChan, validMetrics,
                seqOut, concOut, scored>>

\* the variables of the aggregation
aggregation == <<aggMetrics, ctxDone, taskPc, acc, aggOut>>

\* the request pipeline's stages after the fetch
pipeline == <<request, validation, aggregation>>

\* the variables the breaker's non-overlapping calls leave alone
outside == <<conc, fetch, pipeline>>

\* the breaker with its callers' view of it
breaker == <<state, lastTrip, metricsHistory, successCount, thresholds,
             successThreshold, onTripCallback, callbacks, now, call, ret,
             lastGood, streak>>

vars == <<breaker, outside>>

config == <<thresholds, successThreshold, onTripCallback>>

\* time.Time{}: further in the past than any delay
ZeroTime == 0 - (MaxTime + resetDelay + 1)

Since(t) == now - t

\* Time.Unix(): whole seconds
Unix(t) == t \div TicksPerSecond

Abs(x) == IF x < 0 THEN 0 - x ELSE x

RECURSIVE SumAPYTVL(_)
SumAPYTVL(ms) == IF ms = <<>> THEN 0
                 ELSE Head(ms).APY * Head(ms).TVL + SumAPYTVL(Tail(ms))

RECURSIVE SumAPY(_)
SumAPY(ms) == IF ms = <<>> THEN 0 ELSE Head(ms).APY + SumAPY(Tail(ms))

\* calculateAverageTVL: the total TVL of the batch
RECURSIVE calculateAverageTVL(_)
calculateAverageTVL(ms) == IF ms = <<>> THEN 0
                           ELSE Head(ms).TVL + calculateAverageTVL(Tail(ms))

\* calculateAverageAPY: TVL-weighted average, 0 without TVL
calculateAverageAPY(ms) ==
    LET totalAPY == SumAPYTVL(ms)
        totalTVL == calculateAverageTVL(ms)
    IN IF totalTVL > 0 THEN totalAPY \div totalTVL ELSE 0

RECURSIVE SumSqDev(_, _, _)
SumSqDev(ms, n, s) == IF ms = <<>> THEN 0
                      ELSE (n * Head(ms).APY - s) * (n * Head(ms).APY - s)
                           + SumSqDev(Tail(ms), n, s)

\* mutant: the variance divided by n instead of n-1
calculateStdDevAndMeanPopulation(ms) ==
    LET n == Len(ms)
        s == SumAPY(ms)
    IN IF n <= 1 THEN [n |-> 1, s |-> 0, q |-> 0, d |-> 1]
       ELSE [n |-> n, s |-> s, q |-> SumSqDev(ms, n, s), d |-> n]

\* calculateStdDevAndMean: with n = len, s = sum of APY, q = sum (n*APY - s)^2,
\* the mean is s/n and the variance q / (n^2 * (n-1)); (0, 0) for n <= 1
calculateStdDevAndMean(ms) ==
    LET n == Len(ms)
        s == SumAPY(ms)
    IN IF n <= 1 THEN [n |-> 1, s |-> 0, q |-> 0, d |-> 1]
       ELSE [n |-> n, s |-> s, q |-> SumSqDev(ms, n, s), d |-> n - 1]

\* mean > 0 && stdDev/mean > MaxStdDevMultiple (= num/MaxStdDevDen), squared:
\* q/(n^2 d) / (s^2/n^2) > num^2/den^2
StdDevExceeds(sm, num) ==
    /\ sm.s > 0
    /\ sm.q * MaxStdDevDen * MaxStdDevDen > num * num * sm.d * sm.s * sm.s

\* a call: the method and, for Check, its argument
Call(op, metrics) == [op |-> op, metrics |-> metrics]

NoErr == [kind |-> "nil"]
Err(msg, a, b) == [kind |-> "error", msg |-> msg, a |-> a, b |-> b]

ErrOpen == Err("circuit breaker open: system protection engaged", 0, 0)
ErrEmpty == Err("no metrics provided to circuit breaker", 0, 0)

\* the breaker's mutable fields as one value
CB == [state |-> state, lastTrip |-> lastTrip,
       metricsHistory |-> metricsHistory, successCount |-> successCount]

\* mutant: the delay compared with >= instead of >
resetDueAtDelay(cb) == Since(cb.lastTrip) >= resetDelay

\* time.Since(lastTripTime) > cb.resetDelay
resetDue(cb) == Since(cb.lastTrip) > resetDelay

\* transitionToHalfOpen
transitionToHalfOpen(cb) ==
    IF cb.state = StateOpen
    THEN [cb EXCEPT !.state = StateHalfOpen, !.successCount = 0]
    ELSE cb

\* trip: the state and the trip time (the callback is Spawned)
trip(cb, t) == [cb EXCEPT !.state = StateOpen, !.lastTrip = t]

\* mutant: trip never starts the callback
SpawnedNone(registered, reason, metrics) == EmptyBag

\* trip: the goroutine started for the callback, if one is registered
Spawned(registered, reason, metrics) ==
    IF registered
    THEN SetToBag({[reason |-> reason, metrics |-> metrics]})
    ELSE EmptyBag

\* mutant: the snapshot's APY is the plain average, not weighted by TVL
addToHistoryUnweighted(history, metrics, t) ==
    Append(history, Metric("aggregated", SumAPY(metrics) \div Len(metrics),
                           calculateAverageTVL(metrics), Unix(t)))

\* mutant: a full history keeps its oldest snapshots and drops the new one
addToHistoryKeepsOldest(history, metrics, t) ==
    LET h == Append(history, Metric("aggregated", calculateAverageAPY(metrics),
                                    calculateAverageTVL(metrics), Unix(t)))
    IN IF Len(h) > maxHistorySize THEN SubSeq(h, 1, maxHistorySize) ELSE h

\* mutant: the new snapshot is put in front of the history
addToHistoryPrepend(history, metrics, t) ==
    <<Metric("aggregated", calculateAverageAPY(metrics),
             calculateAverageTVL(metrics), Unix(t))>> \o history

\* addToHistory: append the aggregate snapshot, keep the newest maxHistorySize
addToHistory(history, metrics, t) ==
    LET avgMetric == Metric("aggregated", calculateAverageAPY(metrics),
                            calculateAverageTVL(metrics), Unix(t))
        h == Append(history, avgMetric)
    IN IF Len(h) > maxHistorySize
       THEN SubSeq(h, Len(h) - maxHistorySize + 1, Len(h))
       ELSE h

\* mutant: the provider count compared one too low
tooFewProvidersOffByOne(metrics, th) == Len(metrics) < th.MinProviders - 1

\* len(metrics) < cb.thresholds.MinProviders
tooFewProviders(metrics, th) == Len(metrics) < th.MinProviders

\* mutant: the APY ceiling compared with >= instead of >
RECURSIVE firstAPYAtOrAbove(_, _)
firstAPYAtOrAbove(ms, max) == IF ms = <<>> THEN 0
                              ELSE IF Head(ms).APY >= max THEN Head(ms).APY
                              ELSE firstAPYAtOrAbove(Tail(ms), max)

\* the loop over the metrics: the APY of the first metric above MaxAPY, 0 if none
RECURSIVE firstAPYAbove(_, _)
firstAPYAbove(ms, max) == IF ms = <<>> THEN 0
                          ELSE IF Head(ms).APY > max THEN Head(ms).APY
                          ELSE firstAPYAbove(Tail(ms), max)

\* mutant: the TVL check without the floor on the last TVL
tvlChangeNoFloor(metrics, history) ==
    /\ Len(history) > 0
    /\ history[Len(history)].TVL > 0
    /\ Abs(calculateAverageTVL(metrics) - history[Len(history)].TVL) * MaxTVLChangeDen
         > MaxTVLChangeNum * history[Len(history)].TVL

\* the TVL check: history, lastTVL > 1.0, changeRatio > MaxTVLChange
tvlChangeTooDrastic(metrics, history) ==
    /\ Len(history) > 0
    /\ LET lastMetric == history[Len(history)]
           currentTVL == calculateAverageTVL(metrics)
           lastTVL == lastMetric.TVL
       IN /\ lastTVL > 1
          /\ Abs(currentTVL - lastTVL) * MaxTVLChangeDen > MaxTVLChangeNum * lastTVL

\* changeRatio*100, whole percent
changePercent(metrics, history) ==
    (Abs(calculateAverageTVL(metrics) - history[Len(history)].TVL) * 100)
        \div history[Len(history)].TVL

\* the standard deviation check
stdDevTooHigh(metrics, th) ==
    /\ th.MaxStdDevNum > 0
    /\ Len(metrics) > 1
    /\ StdDevExceeds(calculateStdDevAndMean(metrics), th.MaxStdDevNum)

\* mutant: the TVL check made before the APY check
ViolationTVLFirst(metrics, history, th) ==
    IF tooFewProviders(metrics, th)
    THEN Err("insufficient provider count", Len(metrics), th.MinProviders)
    ELSE IF tvlChangeTooDrastic(metrics, history)
    THEN Err("TVL change too drastic", changePercent(metrics, history),
             (MaxTVLChangeNum * 100) \div MaxTVLChangeDen)
    ELSE IF firstAPYAbove(metrics, MaxAPY) # 0
    THEN Err("APY exceeds maximum threshold", firstAPYAbove(metrics, MaxAPY), MaxAPY)
    ELSE IF stdDevTooHigh(metrics, th)
    THEN Err("APY standard deviation too high", 0, th.MaxStdDevNum)
    ELSE NoErr

\* The threshold checks of Check in the order of the code: the reason of the
\* first violated one, or NoErr.
Violation(metrics, history, th) ==
    IF tooFewProviders(metrics, th)
    THEN Err("insufficient provider count", Len(metrics), th.MinProviders)
    ELSE IF firstAPYAbove(metrics, MaxAPY) # 0
    THEN Err("APY exceeds maximum threshold", firstAPYAbove(metrics, MaxAPY), MaxAPY)
    ELSE IF tvlChangeTooDrastic(metrics, history)
    THEN Err("TVL change too drastic", changePercent(metrics, history),
             (MaxTVLChangeNum * 100) \div MaxTVLChangeDen)
    ELSE IF stdDevTooHigh(metrics, th)
    THEN Err("APY standard deviation too high", 0, th.MaxStdDevNum)
    ELSE NoErr

\* mutant: the success counter compared with > instead of >=
recordSuccessLate(cb, metrics, threshold, t) ==
    LET c1 == [cb EXCEPT !.metricsHistory = addToHistory(cb.metricsHistory, metrics, t)]
    IN IF c1.state = StateHalfOpen
       THEN IF c1.successCount + 1 > threshold
            THEN [c1 EXCEPT !.state = StateClosed, !.successCount = 0]
            ELSE [c1 EXCEPT !.successCount = c1.successCount + 1]
       ELSE c1

\* the success path: history, and the Half-Open counter
recordSuccess(cb, metrics, threshold, t) ==
    LET c1 == [cb EXCEPT !.metricsHistory = addToHistory(cb.metricsHistory, metrics, t)]
    IN IF c1.state = StateHalfOpen
       THEN IF c1.successCount + 1 >= threshold
            THEN [c1 EXCEPT !.state = StateClosed, !.successCount = 0]
            ELSE [c1 EXCEPT !.successCount = c1.successCount + 1]
       ELSE c1

\* mutant: no early exit for an empty batch
evaluateNoEmptyExit(cb, metrics, th, threshold, t) ==
    IF Violation(metrics, cb.metricsHistory, th) # NoErr
    THEN [cb |-> trip(cb, t), ret |-> Violation(metrics, cb.metricsHistory, th),
          tripped |-> TRUE]
    ELSE [cb |-> recordSuccess(cb, metrics, threshold, t), ret |-> NoErr,
          tripped |-> FALSE]

\* Check under the write lock: the new fields, the error, whether trip ran
evaluate(cb, metrics, th, threshold, t) ==
    IF Len(metrics) = 0
    THEN [cb |-> cb, ret |-> ErrEmpty, tripped |-> FALSE]
    ELSE IF Violation(metrics, cb.metricsHistory, th) # NoErr
    THEN [cb |-> trip(cb, t), ret |-> Violation(metrics, cb.metricsHistory, th),
          tripped |-> TRUE]
    ELSE [cb |-> recordSuccess(cb, metrics, threshold, t), ret |-> NoErr,
          tripped |-> FALSE]

\* Check(metrics), the whole call
checkCall(cb, metrics, th, threshold, t) ==
    IF cb.state = StateOpen
    THEN IF resetDue(cb)
         THEN evaluate(transitionToHalfOpen(cb), metrics, th, threshold, t)
         ELSE [cb |-> cb, ret |-> ErrOpen, tripped |-> FALSE]
    ELSE evaluate(cb, metrics, th, threshold, t)

\* the callers of the overlapping Checks
Goroutines == {"g1", "g2"}

\* a caller outside Check
Idle == [pc |-> "idle", metrics |-> <<>>, state |-> StateClosed,
         lastTrip |-> ZeroTime, started |-> 0]

\* no Check is running
InitConc ==
    /\ goroutines = [g \in Goroutines |-> Idle]
    /\ completed = <<>>

\* New(thresholds), WithSuccessThreshold, WithTripCallback
InitBreaker ==
    /\ state = StateClosed
    /\ lastTrip = ZeroTime
    /\ metricsHistory = <<>>
    /\ successCount = 0
    /\ thresholds \in [MinProviders : MinProvidersSet, MaxStdDevNum : StdDevNums]
    /\ successThreshold \in SuccessThresholds
    /\ onTripCallback \in BOOLEAN
    /\ callbacks = EmptyBag
    /\ now = 0
    /\ call = Call("New", <<>>)
    /\ ret = [kind |-> "none"]
    /\ lastGood = <<>>
    /\ streak = 0

\* ----------------------------------------------------- the fetch set-up
\* c.chains: two enabled chains and a disabled one
Chains == {"ethereum", "polygon", "arbitrum"}

chains == [ethereum |-> [Enabled |-> TRUE, Weight |-> 2],
           polygon |-> [Enabled |-> TRUE, Weight |-> 1],
           arbitrum |-> [Enabled |-> FALSE, Weight |-> 3]]

\* c.dataProviders: two providers registered for ethereum, none elsewhere
dataProviders == [ethereum |-> <<"e1", "e2">>, polygon |-> <<>>, arbitrum |-> <<>>]

\* the provider createDefaultProvider makes for a chain
defaultProviders == [ethereum |-> "eigenlayer", polygon |-> "polygon",
                     arbitrum |-> "arbitrum"]

\* s.providers of the single-chain server
serverProviders == <<"s1", "s2">>

Range(f) == {f[i] : i \in DOMAIN f}

Providers == UNION {Range(dataProviders[c]) : c \in Chains}
               \cup Range(defaultProviders) \cup Range(serverProviders)

\* the fan-ins: one per chain task, and fetchAllMetrics
FanIns == Chains \cup {"server"}

NoPartial == [metrics |-> <<>>, errs |-> 0]

NoReturn == [kind |-> "none"]

InitFetch(m) ==
    /\ mode = m
    /\ clock = 0
    /\ cancelled = FALSE
    /\ cachedData = <<>>
    /\ cacheTime = <<>>
    /\ upstreamAt = <<>>
    /\ fetchPc = "idle"
    /\ chainPc = [c \in Chains |-> "none"]
    /\ provPc = [p \in Providers |-> "none"]
    /\ partial = [f \in FanIns |-> NoPartial]
    /\ resultCh = <<>>
    /\ allMetrics = <<>>
    /\ errors = {}
    /\ fetchRet = NoReturn

\* ------------------------------------------------- the validation filters
\* APY is counted in thousandths, TVL in units, time in seconds.

\* DefaultValidationOptions(): 24 hours, TVL 1.0, APY 10.0, multiplier 1.5
DefaultValidationOptions ==
    [MaxAge |-> 86400, MinTVL |-> 1, MaxAPY |-> 10000,
     RequirePositivePointsPerETH |-> TRUE, EnableOutlierDetection |-> TRUE,
     OutlierIQRMultiplier |-> [num |-> 3, den |-> 2]]

\* mutant: an APY equal to MaxAPY is rejected
isValidMetricBelowMax(m, opts, t) ==
    /\ m.APY >= 0
    /\ m.APY < opts.MaxAPY
    /\ m.TVL > opts.MinTVL
    /\ t - m.CollectedAt <= opts.MaxAge
    /\ m.Provider # ""
    /\ opts.RequirePositivePointsPerETH => m.PointsPerETH >= 0

\* isValidMetric, the evaluation being made at time t
isValidMetric(m, opts, t) ==
    IF m.APY < 0 THEN FALSE
    ELSE IF m.APY > opts.MaxAPY THEN FALSE
    ELSE IF m.TVL <= opts.MinTVL THEN FALSE
    ELSE IF t - m.CollectedAt > opts.MaxAge THEN FALSE
    ELSE IF m.Provider = "" THEN FALSE
    ELSE IF opts.RequirePositivePointsPerETH /\ m.PointsPerETH < 0 THEN FALSE
    ELSE TRUE

\* filterBasicCriteria: the valid metrics in the order of the batch
filterBasicCriteria(metrics, opts, t) ==
    SelectSeq(metrics, LAMBDA m : isValidMetric(m, opts, t))

\* sort.Float64s(apys)[k], k counted from 0
sortedAPY(metrics, k) ==
    CHOOSE v \in {metrics[i].APY : i \in DOMAIN metrics} :
        /\ Cardinality({i \in DOMAIN metrics : metrics[i].APY < v}) <= k
        /\ Cardinality({i \in DOMAIN metrics : metrics[i].APY <= v}) > k

\* mutant: the first quartile taken one place early
q1IdxEarly(n) == (n - 1) \div 4

\* filterOutliers' q1Idx and q3Idx
q1Idx(n) == n \div 4
q3Idx(n) == (n * 3) \div 4

\* filterOutliers' lowerBound and upperBound, each a fraction num/den, den > 0
outlierBounds(metrics, mult) ==
    LET n == Len(metrics)
        q1 == sortedAPY(metrics, q1Idx(n))
        q3 == sortedAPY(metrics, q3Idx(n))
        iqr == q3 - q1
        lowerBound == [num |-> mult.den * q1 - mult.num * iqr, den |-> mult.den]
        upperBound == [num |-> mult.den * q3 + mult.num * iqr, den |-> mult.den]
        sum == SumAPY(metrics)
    IN IF upperBound.num - lowerBound.num < minBoundWidth * mult.den
       THEN [lower |-> [num |-> sum, den |-> 2 * n],
             upper |-> [num |-> 2 * sum, den |-> n]]
       ELSE [lower |-> lowerBound, upper |-> upperBound]

\* filterOutliers
filterOutliers(metrics, mult) ==
    IF Len(metrics) <= 3 THEN metrics
    ELSE LET b == outlierBounds(metrics, mult)
         IN SelectSeq(metrics, LAMBDA m : /\ m.APY * b.lower.den >= b.lower.num
                                          /\ m.APY * b.upper.den <= b.upper.num)

\* mutant: the statistical pass runs whether or not it is enabled
outlierPassIgnoresFlag(valid, opts) == Len(valid) > 3

\* FilterInvalidWithOptions' condition for the statistical pass
outlierPassRuns(valid, opts) == opts.EnableOutlierDetection /\ Len(valid) > 3

\* FilterInvalidWithOptions, the evaluation being made at time t
FilterInvalidWithOptions(metrics, opts, t) ==
    LET valid == filterBasicCriteria(metrics, opts, t)
    IN IF outlierPassRuns(valid, opts)
       THEN filterOutliers(valid, opts.OutlierIQRMultiplier)
       ELSE valid

\* FilterInvalid
FilterInvalid(metrics, t) ==
    FilterInvalidWithOptions(metrics, DefaultValidationOptions, t)

\* FilterInvalidConcurrently's workers, counted from 0
Workers == 0 .. (workerCount - 1)

chunkSize(metrics) == (Len(metrics) + workerCount - 1) \div workerCount

\* mutant: a chunk stops one metric short of the next chunk
chunkShort(metrics, i) ==
    LET start == i * chunkSize(metrics)
        end == IF (i + 1) * chunkSize(metrics) > Len(metrics)
               THEN Len(metrics) ELSE (i + 1) * chunkSize(metrics)
    IN SubSeq(metrics, start + 1, end - 1)

\* metrics[start:end] of worker i
chunk(metrics, i) ==
    LET start == i * chunkSize(metrics)
        end == IF (i + 1) * chunkSize(metrics) > Len(metrics)
               THEN Len(metrics) ELSE (i + 1) * chunkSize(metrics)
    IN SubSeq(metrics, start + 1, end)

\* the workers FilterInvalidConcurrently starts
started(metrics) == {i \in Workers : i * chunkSize(metrics) < Len(metrics)}

\* --------------------------------------------------------- the aggregation
\* a condition that leaves the points out
qualifiesAnyPoints(m) == m.TVL > 0 /\ m.APY >= 0

\* Weighted's condition for a metric to count
qualifies(m) == m.TVL > 0 /\ m.APY >= 0 /\ m.PointsPerETH >= 0

\* the sums before the first metric
ZeroAcc == [totalTVL |-> 0, weightedAPY |-> 0, weightedPoints |-> 0,
            validMetrics |-> 0, latestTimestamp |-> 0]

\* one metric's contribution to the sums
accumulate(a, m) ==
    [totalTVL |-> a.totalTVL + m.TVL,
     weightedAPY |-> a.weightedAPY + m.APY * m.TVL,
     weightedPoints |-> a.weightedPoints + m.PointsPerETH * m.TVL,
     validMetrics |-> a.validMetrics + 1,
     latestTimestamp |-> IF m.CollectedAt > a.latestTimestamp
                         THEN m.CollectedAt ELSE a.latestTimestamp]

\* an empty aggregate without the provider
ZeroUnnamed == [Metric("", 0, 0, 0) EXCEPT !.PointsPerETH = 0]

\* the empty aggregate
ZeroMetric == [Metric("aggregated", 0, 0, 0) EXCEPT !.PointsPerETH = 0]

\* the metric Weighted and WeightedParallel make of the sums
aggregateOf(a) ==
    IF a.validMetrics = 0 \/ a.totalTVL <= 0 THEN ZeroMetric
    ELSE [Metric("aggregated", a.weightedAPY \div a.totalTVL, a.totalTVL,
                 a.latestTimestamp)
          EXCEPT !.PointsPerETH = a.weightedPoints \div a.totalTVL]

RECURSIVE sums(_)
\* Weighted's loop
sums(metrics) ==
    IF metrics = <<>> THEN ZeroAcc
    ELSE LET a == sums(SubSeq(metrics, 1, Len(metrics) - 1))
             m == metrics[Len(metrics)]
         IN IF qualifies(m) THEN accumulate(a, m) ELSE a

\* Weighted
Weighted(metrics) ==
    IF Len(metrics) = 0 THEN ZeroMetric ELSE aggregateOf(sums(metrics))

\* Server.aggregateMetrics in the weighted mode, at time t
aggregateMetrics(metrics, t) ==
    LET result == Weighted(metrics)
    IN [result EXCEPT !.Provider = "aggregated-weighted",
                      !.CollectedAt = IF result.CollectedAt = 0
                                      THEN Unix(t) ELSE result.CollectedAt]

\* ------------------------------------------ the pipeline before any request
NoLog == [fetched |-> <<>>, checked |-> <<>>, rejected |-> <<>>, aggregated |-> <<>>]

InitRequest(validate, guard) ==
    /\ enableValidation = validate
    /\ enableCircuitBreaker = guard
    /\ reqPc = "idle"
    /\ reqMetrics = <<>>
    /\ reqLog = NoLog
    /\ response = NoReturn

InitValidation(metrics, opts, t) ==
    /\ vMetrics = metrics
    /\ vOpts = opts
    /\ vNow = t
    /\ vPc = "idle"
    /\ workerPc = [w \in Workers |-> "none"]
    /\ resultChan = <<>>
    /\ validMetrics = <<>>
    /\ seqOut = NoReturn
    /\ concOut = NoReturn
    /\ scored = NoReturn

\* no aggregation function has returned
NoOutputs == [seq |-> NoReturn, par |-> NoReturn, trimmed |-> NoReturn,
              median |-> NoReturn, average |-> NoReturn, validated |-> NoReturn,
              parValidated |-> NoReturn]

InitAggregation(metrics, done) ==
    /\ aggMetrics = metrics
    /\ ctxDone = done
    /\ taskPc = [i \in DOMAIN metrics |-> "none"]
    /\ acc = ZeroAcc
    /\ aggOut = NoOutputs

InitPipeline ==
    /\ InitRequest(TRUE, TRUE)
    /\ InitValidation(<<>>, DefaultValidationOptions, 0)
    /\ InitAggregation(<<>>, FALSE)

Init == InitBreaker /\ InitConc /\ InitFetch("multi") /\ InitPipeline

\* Check(metrics): the call's effect on the breaker and what it returns
CheckEffect(metrics) ==
    /\ LET r == checkCall(CB, metrics, thresholds, successThreshold, now)
       IN /\ state' = r.cb.state
          /\ lastTrip' = r.cb.lastTrip
          /\ metricsHistory' = r.cb.metricsHistory
          /\ successCount' = r.cb.successCount
          /\ callbacks' = IF r.tripped
                          THEN callbacks (+) Spawned(onTripCallback, r.ret, metrics)
                          ELSE callbacks
          /\ ret' = r.ret
          /\ lastGood' = IF r.ret = NoErr THEN metrics ELSE lastGood
          /\ streak' = IF r.ret # NoErr THEN 0
                       ELSE IF state = StateOpen THEN 1
                       ELSE IF streak >= 1 /\ streak < successThreshold THEN streak + 1
                       ELSE 0
    /\ call' = Call("Check", metrics)
    /\ UNCHANGED <<config, now>>

\* Check(metrics) by a caller of the breaker alone
CheckStep(metrics) == CheckEffect(metrics) /\ UNCHANGED outside

Check(metrics) ==
    /\ Len(metricsHistory) < MaxHistory
    /\ BagCardinality(callbacks) < MaxPending
    /\ CheckStep(metrics)

CheckAny == \E metrics \in Batches : Check(metrics)

\* mutant: GetState makes the Open -> Half-Open transition itself
GetStateEager ==
    /\ call' = Call("GetState", <<>>)
    /\ state' = IF state = StateOpen /\ Since(lastTrip) > resetDelay
                THEN StateHalfOpen ELSE state
    /\ ret' = [kind |-> "state", state |-> state']
    /\ UNCHANGED <<lastTrip, metricsHistory, successCount, config, callbacks,
                   now, lastGood, streak, outside>>

GetState ==
    /\ call' = Call("GetState", <<>>)
    /\ ret' = [kind |-> "state", state |-> state]
    /\ UNCHANGED <<state, lastTrip, metricsHistory, successCount, config, callbacks,
                   now, lastGood, streak, outside>>

\* mutant: Reset leaves the success counter as it is
ResetKeepsCount ==
    /\ call' = Call("Reset", <<>>)
    /\ ret' = [kind |-> "none"]
    /\ state' = StateClosed
    /\ streak' = 0
    /\ UNCHANGED <<successCount, lastTrip, metricsHistory, config, callbacks, now,
                   lastGood, outside>>

Reset ==
    /\ call' = Call("Reset", <<>>)
    /\ ret' = [kind |-> "none"]
    /\ state' = StateClosed
    /\ successCount' = 0
    /\ streak' = 0
    /\ UNCHANGED <<lastTrip, metricsHistory, config, callbacks, now, lastGood,
                   outside>>

\* what LastGoodMetrics returns: nil (the empty sequence) or a copy of the history
lastGoodMetrics(cb) ==
    IF Len(cb.metricsHistory) = 0 THEN <<>> ELSE cb.metricsHistory

LastGoodMetrics ==
    /\ call' = Call("LastGoodMetrics", <<>>)
    /\ ret' = [kind |-> "metrics", metrics |-> lastGoodMetrics(CB)]
    /\ UNCHANGED <<state, lastTrip, metricsHistory, successCount, config, callbacks,
                   now, lastGood, streak, outside>>

\* a callback goroutine runs to its end
CallbackRun ==
    \E g \in BagToSet(callbacks) :
        /\ callbacks' = callbacks (-) SetToBag({g})
        /\ UNCHANGED <<state, lastTrip, metricsHistory, successCount, config, now,
                       call, ret, lastGood, streak, outside>>

\* time passes
Tick ==
    /\ now < MaxTime
    /\ now' = now + 1
    /\ UNCHANGED <<state, lastTrip, metricsHistory, successCount, config, callbacks,
                   call, ret, lastGood, streak, outside>>

Next == CheckAny \/ GetState \/ Reset \/ LastGoodMetrics \/ CallbackRun \/ Tick

Spec == Init /\ [][Next]_vars

\* ------------------------------------------------- the history's capacity
\* One breaker (MinProviders 1, no deviation threshold, no callback) offered
\* passing batches of one aggregate again and again while the seconds pass:
\* the snapshots differ by CollectedAt only, so a history is told apart by
\* how many snapshots of each second it holds.
HistBatches == {<<Metric("p1", MaxAPY, 3, 0)>>, <<Metric("p2", MaxAPY, 3, 0)>>}

HistInit ==
    /\ Init
    /\ thresholds = [MinProviders |-> 1, MaxStdDevNum |-> 0]
    /\ successThreshold = 1
    /\ onTripCallback = FALSE

HistCheck == \E metrics \in HistBatches : CheckStep(metrics)

\* a second passes
HistTick ==
    /\ now < MaxSeconds * TicksPerSecond
    /\ now' = now + TicksPerSecond
    /\ UNCHANGED <<state, lastTrip, metricsHistory, successCount, config, callbacks,
                   call, ret, lastGood, streak, outside>>

HistNext == HistCheck \/ HistTick

HistSpec == HistInit /\ [][HistNext]_vars

\* ------------------------------------------------------ overlapping Checks
\* Two callers run Check on one breaker (MinProviders 1, no deviation
\* threshold, success threshold 2, no callback).  A section of the code under
\* cb.mu is one step; the steps of the callers interleave freely.
ConcBatches == {<<Metric("p1", 1, 1, 0)>>, <<Metric("p2", MaxAPY, 3, 0)>>,
                <<Metric("p3", MaxAPY + 1, 3, 0)>>}

ConcInit ==
    /\ Init
    /\ thresholds = [MinProviders |-> 1, MaxStdDevNum |-> 0]
    /\ successThreshold = 2
    /\ onTripCallback = FALSE

\* the call, and the read of state and lastTrip under the read lock
ConcRead(g, metrics) ==
    /\ goroutines[g].pc = "idle"
    /\ Len(metricsHistory) < MaxHistory
    /\ goroutines' = [goroutines EXCEPT ![g] =
                         [pc |-> "read", metrics |-> metrics, state |-> state,
                          lastTrip |-> lastTrip, started |-> Len(completed)]]
    /\ UNCHANGED <<state, lastTrip, metricsHistory, successCount, config, callbacks,
                   now, call, ret, lastGood, streak, completed, fetch, pipeline>>

\* the state read was Open: return the open error, or transitionToHalfOpen
ConcGate(g) ==
    /\ goroutines[g].pc = "read"
    /\ goroutines[g].state = StateOpen
    /\ IF Since(goroutines[g].lastTrip) > resetDelay
       THEN /\ state' = transitionToHalfOpen(CB).state
            /\ successCount' = transitionToHalfOpen(CB).successCount
            /\ goroutines' = [goroutines EXCEPT ![g].pc = "gated"]
       ELSE /\ goroutines' = [goroutines EXCEPT ![g] = Idle]
            /\ UNCHANGED <<state, successCount>>
    /\ UNCHANGED <<lastTrip, metricsHistory, config, callbacks, now, call, ret,
                   lastGood, streak, completed, fetch, pipeline>>

\* the rest of Check, under the write lock, to its return
ConcEvaluate(g) ==
    /\ \/ goroutines[g].pc = "read" /\ goroutines[g].state # StateOpen
       \/ goroutines[g].pc = "gated"
    /\ LET r == evaluate(CB, goroutines[g].metrics, thresholds, successThreshold, now)
       IN /\ state' = r.cb.state
          /\ lastTrip' = r.cb.lastTrip
          /\ metricsHistory' = r.cb.metricsHistory
          /\ successCount' = r.cb.successCount
          /\ callbacks' = IF r.tripped
                          THEN callbacks (+) Spawned(onTripCallback, r.ret,
                                                     goroutines[g].metrics)
                          ELSE callbacks
          /\ completed' = IF r.ret = NoErr
                          THEN Append(completed,
                                      [metrics |-> goroutines[g].metrics,
                                       started |-> goroutines[g].started])
                          ELSE completed
    /\ goroutines' = [goroutines EXCEPT ![g] = Idle]
    /\ UNCHANGED <<config, now, call, ret, lastGood, streak, fetch, pipeline>>

ConcNext ==
    \/ \E g \in Goroutines, metrics \in ConcBatches : ConcRead(g, metrics)
    \/ \E g \in Goroutines : ConcGate(g)
    \/ \E g \in Goroutines : ConcEvaluate(g)
    \/ Tick

ConcSpec == ConcInit /\ [][ConcNext]_vars

\* ------------------------------------------------- the fetch orchestrators
\* One fetch at a time: MultiChainClient.Fetch with its chain tasks and their
\* provider tasks, or the server's fetchAllMetrics with its provider tasks.
\* A provider ends with one metric ("ok"), with no metric and no error
\* ("empty") or with an error ("fail"); once the context is cancelled it ends
\* with an error.  The clock stands still while a fetch runs.

\* the chain tag a provider puts on its metrics
providerTag == [p \in Providers |-> IF p = "polygon" THEN "polygon"
                                    ELSE IF p = "e2" THEN "mainnet" ELSE ""]

\* what a provider's Fetch returns at time t when it ends with one metric
providerMetric(p, t) ==
    [Provider |-> p, Chain |-> providerTag[p], Weight |-> 0, CollectedAt |-> t]

\* getEnabledChains
getEnabledChains == {c \in Chains : chains[c].Enabled}

\* createDefaultProvider: the provider, or none for a chain not enabled
createDefaultProvider(c) ==
    IF chains[c].Enabled THEN <<defaultProviders[c]>> ELSE <<>>

\* the providers a chain task fans out to
providersOf(c) ==
    IF Len(dataProviders[c]) = 0 THEN createDefaultProvider(c) ELSE dataProviders[c]

\* the fan-in a running provider task reports to
fanInOf(p) ==
    IF p \in Range(serverProviders) THEN "server"
    ELSE CHOOSE c \in Chains : p \in Range(providersOf(c))

\* mutant: an entry counts as fresh for half the TTL only
cacheFreshHalfTTL(c) ==
    /\ c \in DOMAIN cachedData
    /\ (clock - cacheTime[c]) * 2 < cacheTTL

\* fetchChainData's cache test: an entry, and time.Since(cacheTime) < cacheTTL
cacheFresh(c) ==
    /\ c \in DOMAIN cachedData
    /\ clock - cacheTime[c] < cacheTTL

\* a message on the result channel (upstream: when the batch came from upstream)
Result(c, metrics, err, upstream) ==
    [chain |-> c, metrics |-> metrics, err |-> err, upstream |-> upstream]

\* mutant: a fan-in fails as soon as one of its tasks failed
mergeAnyError(metrics, errs) ==
    IF errs > 0 THEN [metrics |-> <<>>, err |-> TRUE]
    ELSE [metrics |-> metrics, err |-> FALSE]

\* the end of every fan-in: len(metrics) == 0 && len(errors) > 0
merge(metrics, errs) ==
    IF Len(metrics) = 0 /\ errs > 0 THEN [metrics |-> <<>>, err |-> TRUE]
    ELSE [metrics |-> metrics, err |-> FALSE]

\* mutant: the result channel counts as closed from the start
resultChClosedEarly == TRUE

\* close(resultCh) has run: after wg.Wait, when every chain task is done
resultChClosed == \A c \in Chains : chainPc[c] \in {"none", "done"}

\* mutant: a tag the provider has set is kept
taggedKeepsProviderTag(m, c) ==
    [m EXCEPT !.Chain = IF m.Chain = "" THEN c ELSE m.Chain,
              !.Weight = IF c \in DOMAIN chains THEN chains[c].Weight
                         ELSE DefaultWeight]

\* the copy of a metric Fetch returns: the chain tag, and the chain's weight
\* or the default weight for a chain c.chains does not hold
tagged(m, c) ==
    [m EXCEPT !.Chain = c,
              !.Weight = IF c \in DOMAIN chains THEN chains[c].Weight
                         ELSE DefaultWeight]

RECURSIVE tagAll(_, _)
tagAll(ms, c) == IF ms = <<>> THEN <<>>
                 ELSE <<tagged(Head(ms), c)>> \o tagAll(Tail(ms), c)

\* Fetch is called: one task per enabled chain
FetchStart ==
    /\ mode = "multi"
    /\ fetchPc \in {"idle", "returned"}
    /\ fetchPc' = "collect"
    /\ cancelled' = FALSE
    /\ chainPc' = [c \in Chains |-> IF c \in getEnabledChains THEN "start" ELSE "none"]
    /\ provPc' = [p \in Providers |-> "none"]
    /\ partial' = [f \in FanIns |-> NoPartial]
    /\ resultCh' = <<>>
    /\ allMetrics' = <<>>
    /\ errors' = {}
    /\ fetchRet' = NoReturn
    /\ UNCHANGED <<mode, clock, cachedData, cacheTime, upstreamAt, breaker, conc, pipeline>>

\* fetchChainData to its fan-out: the cached batch is sent, or no provider
\* can be made, or the providers are started
ChainBegin(c) ==
    /\ chainPc[c] = "start"
    /\ IF cacheFresh(c)
       THEN /\ Len(resultCh) < Cardinality(getEnabledChains)
            /\ resultCh' = Append(resultCh,
                                  Result(c, cachedData[c], FALSE, upstreamAt[c]))
            /\ chainPc' = [chainPc EXCEPT ![c] = "done"]
            /\ UNCHANGED provPc
       ELSE IF Len(providersOf(c)) = 0
       THEN /\ Len(resultCh) < Cardinality(getEnabledChains)
            /\ resultCh' = Append(resultCh, Result(c, <<>>, TRUE, clock))
            /\ chainPc' = [chainPc EXCEPT ![c] = "done"]
            /\ UNCHANGED provPc
       ELSE /\ provPc' = [p \in Providers |->
                             IF p \in Range(providersOf(c)) THEN "running"
                             ELSE provPc[p]]
            /\ chainPc' = [chainPc EXCEPT ![c] = "wait"]
            /\ UNCHANGED resultCh
    /\ UNCHANGED <<mode, clock, cancelled, cachedData, cacheTime, upstreamAt, fetchPc,
                   partial, allMetrics, errors, fetchRet, breaker, conc, pipeline>>

\* a provider's Fetch returns and its task records the outcome under mu
ProviderReturn(p, outcome) ==
    /\ provPc[p] = "running"
    /\ cancelled => outcome = "fail"
    /\ provPc' = [provPc EXCEPT ![p] = outcome]
    /\ partial' = [partial EXCEPT ![fanInOf(p)] =
                      IF outcome = "fail" THEN [@ EXCEPT !.errs = @ + 1]
                      ELSE IF outcome = "ok"
                      THEN [@ EXCEPT !.metrics = Append(@, providerMetric(p, clock))]
                      ELSE @]
    /\ UNCHANGED <<mode, clock, cancelled, cachedData, cacheTime, upstreamAt, fetchPc,
                   chainPc, resultCh, allMetrics, errors, fetchRet, breaker, conc, pipeline>>

\* fetchChainData after wg.Wait: the chain's result goes on the channel
ChainJoin(c) ==
    /\ chainPc[c] = "wait"
    /\ \A p \in Range(providersOf(c)) : provPc[p] # "running"
    /\ Len(resultCh) < Cardinality(getEnabledChains)
    /\ LET r == merge(partial[c].metrics, partial[c].errs)
       IN resultCh' = Append(resultCh, Result(c, r.metrics, r.err, clock))
    /\ chainPc' = [chainPc EXCEPT ![c] = "done"]
    /\ UNCHANGED <<mode, clock, cancelled, cachedData, cacheTime, upstreamAt, fetchPc,
                   provPc, partial, allMetrics, errors, fetchRet, breaker, conc, pipeline>>

\* one turn of Fetch's loop over the channel
FetchCollect ==
    /\ fetchPc = "collect"
    /\ resultCh # <<>>
    /\ LET result == Head(resultCh)
       IN IF result.err
          THEN /\ errors' = errors \cup {result.chain}
               /\ UNCHANGED <<allMetrics, cachedData, cacheTime, upstreamAt>>
          ELSE /\ allMetrics' = allMetrics \o tagAll(result.metrics, result.chain)
               /\ cachedData' = (result.chain :> result.metrics) @@ cachedData
               /\ cacheTime' = (result.chain :> clock) @@ cacheTime
               /\ upstreamAt' = (result.chain :> result.upstream) @@ upstreamAt
               /\ UNCHANGED errors
    /\ resultCh' = Tail(resultCh)
    /\ UNCHANGED <<mode, clock, cancelled, fetchPc, chainPc, provPc, partial, fetchRet,
                   breaker, conc, pipeline>>

\* the loop ends on the closed, drained channel and Fetch returns
FetchReturn ==
    /\ fetchPc = "collect"
    /\ resultCh = <<>>
    /\ resultChClosed
    /\ fetchRet' = merge(allMetrics, Cardinality(errors))
    /\ fetchPc' = "returned"
    /\ UNCHANGED <<mode, clock, cancelled, cachedData, cacheTime, upstreamAt, chainPc,
                   provPc, partial, resultCh, allMetrics, errors, breaker, conc, pipeline>>

\* fetchAllMetrics is called: one task per provider of the server
SingleStart ==
    /\ mode = "single"
    /\ fetchPc \in {"idle", "returned"}
    /\ fetchPc' = "single"
    /\ cancelled' = FALSE
    /\ provPc' = [p \in Providers |->
                     IF p \in Range(serverProviders) THEN "running" ELSE "none"]
    /\ partial' = [f \in FanIns |-> NoPartial]
    /\ fetchRet' = NoReturn
    /\ UNCHANGED <<mode, clock, cachedData, cacheTime, upstreamAt, chainPc, resultCh,
                   allMetrics, errors, breaker, conc, pipeline>>

\* fetchAllMetrics after wg.Wait
SingleReturn ==
    /\ fetchPc = "single"
    /\ \A p \in Range(serverProviders) : provPc[p] # "running"
    /\ fetchRet' = merge(partial["server"].metrics, partial["server"].errs)
    /\ fetchPc' = "returned"
    /\ UNCHANGED <<mode, clock, cancelled, cachedData, cacheTime, upstreamAt, chainPc,
                   provPc, partial, resultCh, allMetrics, errors, breaker, conc, pipeline>>

\* the caller cancels the context of the running fetch
Cancel ==
    /\ fetchPc \in {"collect", "single"}
    /\ ~cancelled
    /\ cancelled' = TRUE
    /\ UNCHANGED <<mode, clock, cachedData, cacheTime, upstreamAt, fetchPc, chainPc,
                   provPc, partial, resultCh, allMetrics, errors, fetchRet, breaker,
                   conc, pipeline>>

\* a minute passes between two fetches ("returned" is the moment of return)
FetchTick ==
    /\ fetchPc \in {"idle", "returned"}
    /\ clock < MaxMinutes
    /\ clock' = clock + 1
    /\ fetchPc' = "idle"
    /\ UNCHANGED <<mode, cancelled, cachedData, cacheTime, upstreamAt,
                   chainPc, provPc, partial, resultCh, allMetrics, errors, fetchRet,
                   breaker, conc, pipeline>>

FetchInit ==
    /\ InitBreaker
    /\ thresholds = [MinProviders |-> 1, MaxStdDevNum |-> 0]
    /\ successThreshold = 1
    /\ onTripCallback = FALSE
    /\ InitConc
    /\ \E m \in {"multi", "single"} : InitFetch(m)
    /\ InitPipeline

FetchNext ==
    \/ FetchStart
    \/ \E c \in Chains : ChainBegin(c)
    \/ \E p \in Providers, outcome \in {"ok", "empty", "fail"} : ProviderReturn(p, outcome)
    \/ \E c \in Chains : ChainJoin(c)
    \/ FetchCollect
    \/ FetchReturn
    \/ SingleStart
    \/ SingleReturn
    \/ Cancel
    \/ FetchTick

FetchSpec == FetchInit /\ [][FetchNext]_vars

\* ------------------------------------------------------ the request handler
\* Server.handleRequest (src/unnamed/part_004 lines 509-640) past the parsing
\* of the request: the fetch is an input, one request runs at a time, and
\* time, Reset and the trip callbacks go on between its calls of the breaker.

\* the batches fetched: none, one the validation empties, one that passes,
\* one that trips the breaker, and one the validation thins
ReqBatches ==
    {<<>>, <<Metric("p1", 1, 1, 0)>>, <<Metric("p2", MaxAPY, 3, 0)>>,
     <<Metric("p3", MaxAPY + 1, 3, 0)>>,
     <<Metric("p1", 1, 1, 0), Metric("p2", MaxAPY, 3, 0)>>}

\* what the fetch of a request may return: an error, or a batch
Fetches == {[err |-> TRUE, metrics |-> <<>>]}
           \cup {[err |-> FALSE, metrics |-> b] : b \in ReqBatches}

OK(result) == [status |-> 200, error |-> "", result |-> result]

errorResponse(statusCode, errorMsg) ==
    [status |-> statusCode, error |-> errorMsg, result |-> ZeroMetric]

\* mutant: an empty validated batch goes on to the breaker
validationNeverExhausted(valid) == FALSE

\* handleRequest's test after validation
validationExhausted(valid) == Len(valid) = 0

\* mutant: the rejected batch is kept when Check returns an error
afterRejectionKeepsBatch(history, metrics) ==
    [answer |-> "aggregate", metrics |-> metrics]

\* handleRequest after Check returned an error: the fallback, or the end
afterRejection(history, metrics) ==
    IF Len(history) > 0
    THEN [answer |-> "aggregate", metrics |-> history]
    ELSE [answer |-> "error", metrics |-> metrics]

\* the request up to the breaker: fetch, validation
ReqStart(fetched) ==
    /\ reqPc = "idle"
    /\ Len(metricsHistory) < MaxHistory
    /\ BagCardinality(callbacks) < MaxPending
    /\ LET valid == IF enableValidation
                    THEN FilterInvalid(fetched.metrics, Unix(now))
                    ELSE fetched.metrics
       IN /\ reqLog' = [NoLog EXCEPT !.fetched = <<fetched>>]
          /\ IF fetched.err
             THEN /\ response' = errorResponse(500, "Error fetching metrics")
                  /\ UNCHANGED <<reqPc, reqMetrics>>
             ELSE IF enableValidation /\ validationExhausted(valid)
             THEN /\ response' =
                        errorResponse(503, "No valid metrics available after validation")
                  /\ reqMetrics' = valid
                  /\ UNCHANGED reqPc
             ELSE /\ reqMetrics' = valid
                  /\ reqPc' = IF enableCircuitBreaker THEN "check" ELSE "aggregate"
                  /\ response' = NoReturn
    /\ UNCHANGED <<enableValidation, enableCircuitBreaker, breaker, conc, fetch,
                   validation, aggregation>>

\* s.breaker.Check(metrics)
ReqCheck ==
    /\ reqPc = "check"
    /\ CheckEffect(reqMetrics)
    /\ reqPc' = IF ret' = NoErr THEN "aggregate" ELSE "lastgood"
    /\ reqLog' = [reqLog EXCEPT !.checked = <<reqMetrics>>,
                                !.rejected = IF ret' = NoErr THEN <<>>
                                             ELSE <<reqMetrics>>]
    /\ UNCHANGED <<enableValidation, enableCircuitBreaker, reqMetrics, response,
                   conc, fetch, validation, aggregation>>

\* s.breaker.LastGoodMetrics() after an error of Check
ReqLastGood ==
    /\ reqPc = "lastgood"
    /\ LET after == afterRejection(lastGoodMetrics(CB), reqMetrics)
       IN IF after.answer = "aggregate"
          THEN /\ reqMetrics' = after.metrics
               /\ reqPc' = "aggregate"
               /\ UNCHANGED response
          ELSE /\ response' = errorResponse(503, "Circuit breaker open")
               /\ reqPc' = "idle"
               /\ UNCHANGED reqMetrics
    /\ call' = Call("LastGoodMetrics", <<>>)
    /\ ret' = [kind |-> "metrics", metrics |-> lastGoodMetrics(CB)]
    /\ UNCHANGED <<state, lastTrip, metricsHistory, successCount, config, callbacks,
                   now, lastGood, streak, enableValidation, enableCircuitBreaker,
                   reqLog, conc, fetch, validation, aggregation>>

\* s.aggregateMetrics(metrics) and the response
ReqAggregate ==
    /\ reqPc = "aggregate"
    /\ response' = OK(aggregateMetrics(reqMetrics, now))
    /\ reqLog' = [reqLog EXCEPT !.aggregated = <<reqMetrics>>]
    /\ reqPc' = "idle"
    /\ UNCHANGED <<enableValidation, enableCircuitBreaker, reqMetrics, breaker, conc,
                   fetch, validation, aggregation>>

ReqInit ==
    /\ InitBreaker
    /\ thresholds = [MinProviders |-> 1, MaxStdDevNum |-> 0]
    /\ successThreshold = 1
    /\ onTripCallback = TRUE
    /\ InitConc
    /\ InitFetch("multi")
    /\ \E validate \in BOOLEAN, guard \in BOOLEAN : InitRequest(validate, guard)
    /\ InitValidation(<<>>, DefaultValidationOptions, 0)
    /\ InitAggregation(<<>>, FALSE)

ReqNext ==
    \/ \E fetched \in Fetches : ReqStart(fetched)
    \/ ReqCheck
    \/ ReqLastGood
    \/ ReqAggregate
    \/ Reset
    \/ CallbackRun
    \/ Tick

ReqSpec == ReqInit /\ [][ReqNext]_vars

\* ------------------------------------------------ the filters on a batch
\* FilterInvalidWithOptions, FilterInvalidConcurrently and
\* CalculateConfidenceScores, each called once on the same batch.

\* the options of the runs: a maximal age of 10 seconds, TVL above 1, APY up
\* to 1.0, the multiplier 1.5
OptionsSet ==
    [MaxAge : {10}, MinTVL : {1}, MaxAPY : {1000},
     RequirePositivePointsPerETH : BOOLEAN, EnableOutlierDetection : BOOLEAN,
     OutlierIQRMultiplier : {[num |-> 3, den |-> 2]}]

\* the time of the runs
EvalTime == 11

\* a metric that passes the structural criteria, with the APY given
Good(apy) == [Metric("p", apy, 2, EvalTime) EXCEPT !.PointsPerETH = 1]

GoodMetrics == {Good(0), Good(120), Good(180), Good(200)}

\* a metric at or past each limit of the structural criteria
EdgeMetrics ==
    {[Good(200) EXCEPT !.APY = 0 - 1],
     [Good(200) EXCEPT !.APY = 1000],
     [Good(200) EXCEPT !.APY = 1001],
     [Good(200) EXCEPT !.TVL = 1],
     [Good(200) EXCEPT !.TVL = 0],
     [Good(200) EXCEPT !.CollectedAt = 1],
     [Good(200) EXCEPT !.CollectedAt = 0],
     [Good(200) EXCEPT !.Provider = ""],
     [Good(200) EXCEPT !.PointsPerETH = 0],
     [Good(200) EXCEPT !.PointsPerETH = 0 - 1]}

\* a batch of n metrics: the prefix, then APY 0.200 and 0.210 in turn
Long(prefix, n) ==
    [i \in 1..n |-> IF i <= Len(prefix) THEN prefix[i]
                    ELSE Good(200 + 10 * (i % 2))]

\* the batches of the runs: valid metrics of every spread, metrics at the
\* limits, and batches around the threshold of the parallel path
FilterBatches ==
    SeqsUpTo(GoodMetrics, MaxValid)
    \cup SeqsUpTo(EdgeMetrics \cup {Good(200)}, MaxBatch)
    \cup {Long(prefix, n) :
            prefix \in SeqsUpTo({Good(0), Good(180), [Good(200) EXCEPT !.TVL = 1]},
                                MaxBatch),
            n \in {parallelThreshold - 1, parallelThreshold, parallelThreshold + 1}}

\* a float64 that is a fraction num/den, and the float64 NaN
Fraction(num, den) == [nan |-> FALSE, num |-> num, den |-> den]
NaN == [nan |-> TRUE, num |-> 0, den |-> 0]

\* a metric with the Confidence given; a metric from a provider has none (0)
WithConfidence(m, c) == [Confidence |-> c] @@ m

RECURSIVE SumTVL(_)
SumTVL(ms) == IF ms = <<>> THEN 0 ELSE Head(ms).TVL + SumTVL(Tail(ms))

\* CalculateConfidenceScores' confidence of m, 1.0 / (1.0 + relativeDist*5):
\* refAPY = totalAPY / totalTVL is no number when totalTVL is 0; relativeDist
\* is |APY| when refAPY is 0 and |APY - refAPY| / refAPY otherwise (TVL >= 0)
confidence(m, totalAPY, totalTVL) ==
    IF totalTVL = 0 THEN NaN
    ELSE IF totalAPY = 0
    THEN Fraction(APYUnit, APYUnit + 5 * Abs(m.APY))
    ELSE Fraction(totalAPY, totalAPY + 5 * Abs(m.APY * totalTVL - totalAPY))

\* CalculateConfidenceScores
CalculateConfidenceScores(metrics) ==
    IF Len(metrics) <= 1
    THEN [i \in DOMAIN metrics |-> WithConfidence(metrics[i], Fraction(0, 1))]
    ELSE [i \in DOMAIN metrics |->
            WithConfidence(metrics[i],
                           confidence(metrics[i], SumAPYTVL(metrics), SumTVL(metrics)))]

\* CalculateConfidenceScores(vMetrics)
Score ==
    /\ scored = NoReturn
    /\ Len(vMetrics) <= MaxValid
    /\ scored' = [kind |-> "metrics", metrics |-> CalculateConfidenceScores(vMetrics)]
    /\ UNCHANGED <<vMetrics, vOpts, vNow, vPc, workerPc, resultChan, validMetrics,
                   seqOut, concOut, breaker, conc, fetch, request, aggregation>>

\* FilterInvalidWithOptions(vMetrics, vOpts)
FilterSeq ==
    /\ seqOut = NoReturn
    /\ seqOut' = [kind |-> "metrics",
                  valid |-> filterBasicCriteria(vMetrics, vOpts, vNow),
                  metrics |-> FilterInvalidWithOptions(vMetrics, vOpts, vNow)]
    /\ UNCHANGED <<vMetrics, vOpts, vNow, vPc, workerPc, resultChan, validMetrics,
                   concOut, scored, breaker, conc, fetch, request, aggregation>>

\* FilterInvalidConcurrently(vMetrics, vOpts) up to the start of its workers
ConcStart ==
    /\ vPc = "idle"
    /\ IF Len(vMetrics) < parallelThreshold
       THEN /\ concOut' = [kind |-> "metrics",
                           metrics |-> FilterInvalidWithOptions(vMetrics, vOpts, vNow)]
            /\ vPc' = "returned"
            /\ UNCHANGED workerPc
       ELSE /\ workerPc' = [w \in Workers |->
                               IF w \in started(vMetrics) THEN "run" ELSE "none"]
            /\ vPc' = "collect"
            /\ UNCHANGED concOut
    /\ UNCHANGED <<vMetrics, vOpts, vNow, resultChan, validMetrics, seqOut, scored,
                   breaker, conc, fetch, request, aggregation>>

\* a worker filters its chunk and sends the result
Worker(w) ==
    /\ workerPc[w] = "run"
    /\ resultChan' = Append(resultChan,
                            filterBasicCriteria(chunk(vMetrics, w), vOpts, vNow))
    /\ workerPc' = [workerPc EXCEPT ![w] = "done"]
    /\ UNCHANGED <<vMetrics, vOpts, vNow, vPc, validMetrics, seqOut, concOut, scored,
                   breaker, conc, fetch, request, aggregation>>

\* the collecting loop receives a chunk
Receive ==
    /\ vPc = "collect"
    /\ resultChan # <<>>
    /\ validMetrics' = validMetrics \o Head(resultChan)
    /\ resultChan' = Tail(resultChan)
    /\ UNCHANGED <<vMetrics, vOpts, vNow, vPc, workerPc, seqOut, concOut, scored,
                   breaker, conc, fetch, request, aggregation>>

\* the channel is closed and drained: the statistical pass and the return
ConcReturn ==
    /\ vPc = "collect"
    /\ resultChan = <<>>
    /\ \A w \in Workers : workerPc[w] # "run"
    /\ concOut' = [kind |-> "metrics",
                   metrics |-> IF outlierPassRuns(validMetrics, vOpts)
                               THEN filterOutliers(validMetrics,
                                                   vOpts.OutlierIQRMultiplier)
                               ELSE validMetrics]
    /\ vPc' = "returned"
    /\ UNCHANGED <<vMetrics, vOpts, vNow, workerPc, resultChan, validMetrics, seqOut,
                   scored, breaker, conc, fetch, request, aggregation>>

ValidInit ==
    /\ InitBreaker
    /\ thresholds = [MinProviders |-> 1, MaxStdDevNum |-> 0]
    /\ successThreshold = 1
    /\ onTripCallback = FALSE
    /\ InitConc
    /\ InitFetch("multi")
    /\ InitRequest(TRUE, TRUE)
    /\ \E metrics \in FilterBatches, opts \in OptionsSet :
          InitValidation(metrics, opts, EvalTime)
    /\ InitAggregation(<<>>, FALSE)

ValidNext ==
    \/ FilterSeq
    \/ ConcStart
    \/ \E w \in Workers : Worker(w)
    \/ Receive
    \/ ConcReturn
    \/ Score

ValidSpec == ValidInit /\ [][ValidNext]_vars

\* ------------------------------------------- the two weighted aggregations
\* Weighted and WeightedParallel, each called once on the same batch;
\* WeightedParallel with a context that is cancelled already or may become so.

\* metrics that count and metrics that do not, collected at different times
AggMetrics ==
    {[Metric("a", 100, 1, 1) EXCEPT !.PointsPerETH = 2],
     [Metric("b", 300, 3, 2) EXCEPT !.PointsPerETH = 1],
     Metric("c", 200, 0, 3),
     Metric("d", 0 - 1, 2, 3),
     [Metric("e", 200, 2, 3) EXCEPT !.PointsPerETH = 0 - 1],
     Metric("f", 100, 2, 2)}

\* a batch of four valid metrics whose least APY is an outlier
OutlierBatch ==
    <<Metric("g", 50, 2, 3), Metric("h", 0, 1, 3), Metric("i", 52, 4, 2),
      Metric("j", 51, 3, 3)>>

\* ValidateMetric's greatest plausible APY, its greatest age, and the time of
\* the calls
maxPlausibleAPY == 100
Day == 2
AggTime == 4

\* the trim fractions: none, the server's tenth, a third, a half
TrimFractions == {Fraction(0, 1), Fraction(1, 10), Fraction(1, 3), Fraction(1, 2)}

\* the metrics TrimmedMeanAggregation may trim
validOf(metrics) == SelectSeq(metrics, qualifies)

\* the positions of S whose metric has the least APY
least(metrics, S) == {i \in S : \A j \in S : metrics[i].APY <= metrics[j].APY}

RECURSIVE orders(_, _)
\* the orders sort.Slice may leave the positions S in: ascending by APY,
\* metrics of equal APY in any order (the sort is not stable)
orders(metrics, S) ==
    IF S = {} THEN {<<>>}
    ELSE UNION {{<<i>> \o o : o \in orders(metrics, S \ {i})} :
                i \in least(metrics, S)}

\* the slices sort.Slice may make of metrics
sortedByAPY(metrics) ==
    {[k \in DOMAIN o |-> metrics[o[k]]] : o \in orders(metrics, DOMAIN metrics)}

\* a count that trims nothing
trimCountZero(n, trim) == 0

\* int(float64(n) * trimPercent) for a fraction that is not negative
trimCount(n, trim) == (n * trim.num) \div trim.den

\* TrimmedMeanAggregation, sorted being the slice its sort leaves
TrimmedMeanAggregation(metrics, trim, sorted) ==
    IF Len(metrics) < 3 \/ trim.num <= 0 \/ 2 * trim.num >= trim.den
    THEN Weighted(metrics)
    ELSE IF Len(validOf(metrics)) < 3 THEN Weighted(metrics)
    ELSE LET n == Len(sorted)
             k == trimCount(n, trim)
         IN Weighted(SubSeq(sorted, k + 1, n - k))

\* Median's values: the field of the metrics with TVL > 0, in batch order
valuesOf(metrics, field) ==
    LET counted == SelectSeq(metrics, LAMBDA m : m.TVL > 0)
    IN [i \in DOMAIN counted |-> counted[i][field]]

\* sort.Float64s(values)[k], k counted from 0
sortedValue(values, k) ==
    CHOOSE v \in {values[i] : i \in DOMAIN values} :
        /\ Cardinality({i \in DOMAIN values : values[i] < v}) <= k
        /\ Cardinality({i \in DOMAIN values : values[i] <= v}) > k

\* an index that takes the upper middle value twice
lowerMiddleSame(n) == n \div 2

\* the index n/2-1 of the lower middle value of an even count
lowerMiddle(n) == n \div 2 - 1

\* Median, the selector being a field; the float64 as an exact fraction
Median(metrics, field) ==
    LET values == valuesOf(metrics, field)
        n == Len(values)
    IN IF Len(metrics) = 0 \/ n = 0 THEN Fraction(0, 1)
       ELSE IF n % 2 = 0
       THEN Fraction(sortedValue(values, lowerMiddle(n))
                         + sortedValue(values, n \div 2), 2)
       ELSE Fraction(sortedValue(values, n \div 2), 1)

RECURSIVE latest(_)
\* MedianAggregation's loop for the latest timestamp, over every metric
latest(metrics) ==
    IF metrics = <<>> THEN 0
    ELSE LET t == latest(SubSeq(metrics, 1, Len(metrics) - 1))
             m == metrics[Len(metrics)]
         IN IF m.CollectedAt > t THEN m.CollectedAt ELSE t

\* MedianAggregation
MedianAggregation(metrics) ==
    IF Len(metrics) = 0
    THEN [Provider |-> "aggregated", APY |-> Fraction(0, 1), TVL |-> Fraction(0, 1),
          PointsPerETH |-> Fraction(0, 1), CollectedAt |-> 0]
    ELSE [Provider |-> "aggregated", APY |-> Median(metrics, "APY"),
          TVL |-> Median(metrics, "TVL"),
          PointsPerETH |-> Median(metrics, "PointsPerETH"),
          CollectedAt |-> latest(metrics)]

RECURSIVE totals(_)
\* AverageMetrics' loop: only the APY and the points are tested
totals(metrics) ==
    IF metrics = <<>>
    THEN [totalAPY |-> 0, totalTVL |-> 0, totalPoints |-> 0, validMetrics |-> 0,
          latestTimestamp |-> 0]
    ELSE LET a == totals(SubSeq(metrics, 1, Len(metrics) - 1))
             m == metrics[Len(metrics)]
         IN IF m.APY >= 0 /\ m.PointsPerETH >= 0
            THEN [totalAPY |-> a.totalAPY + m.APY,
                  totalTVL |-> a.totalTVL + m.TVL,
                  totalPoints |-> a.totalPoints + m.PointsPerETH,
                  validMetrics |-> a.validMetrics + 1,
                  latestTimestamp |-> IF m.CollectedAt > a.latestTimestamp
                                      THEN m.CollectedAt ELSE a.latestTimestamp]
            ELSE a

\* AverageMetrics; the float64 means as exact fractions
AverageMetrics(metrics) ==
    LET a == totals(metrics)
    IN IF Len(metrics) = 0 \/ a.validMetrics = 0
       THEN [Provider |-> "aggregated", APY |-> Fraction(0, 1),
             TVL |-> Fraction(0, 1), PointsPerETH |-> Fraction(0, 1),
             CollectedAt |-> 0]
       ELSE [Provider |-> "aggregated", APY |-> Fraction(a.totalAPY, a.validMetrics),
             TVL |-> Fraction(a.totalTVL, a.validMetrics),
             PointsPerETH |-> Fraction(a.totalPoints, a.validMetrics),
             CollectedAt |-> a.latestTimestamp]

\* ValidateMetric at time t returns nil
ValidateMetric(m, t) ==
    /\ ~(m.APY < 0)
    /\ ~(m.APY > maxPlausibleAPY)
    /\ ~(m.TVL <= 0)
    /\ ~(m.PointsPerETH < 0)
    /\ ~(m.CollectedAt <= 0)
    /\ ~(m.CollectedAt < t - Day)

\* FilterOutliers of the aggregation package: bounds q1 - 1.5*iqr and
\* q3 + 1.5*iqr over the APYs of the metrics with TVL > 0 and APY >= 0,
\* compared in halves
FilterOutliers(metrics) ==
    LET counted == SelectSeq(metrics, LAMBDA m : m.TVL > 0 /\ m.APY >= 0)
        apyValues == [i \in DOMAIN counted |-> counted[i].APY]
        n == Len(apyValues)
    IN IF Len(metrics) < 4 \/ n < 4 THEN metrics
       ELSE LET q1 == sortedValue(apyValues, n \div 4)
                q3 == sortedValue(apyValues, (n * 3) \div 4)
                iqr == q3 - q1
            IN SelectSeq(metrics, LAMBDA m : /\ 2 * m.APY >= 2 * q1 - 3 * iqr
                                             /\ 2 * m.APY <= 2 * q3 + 3 * iqr)

\* ValidateAndFilterMetrics at time t
ValidateAndFilterMetrics(metrics, t) ==
    FilterOutliers(SelectSeq(metrics, LAMBDA m : ValidateMetric(m, t)))

\* WeightedWithValidation at time t
WeightedWithValidation(metrics, t) == Weighted(ValidateAndFilterMetrics(metrics, t))

\* the metrics of the batch at the positions S, in batch order
pick(metrics, S) ==
    LET RECURSIVE upTo(_)
        upTo(k) == IF k = 0 THEN <<>>
                   ELSE IF k \in S THEN Append(upTo(k - 1), metrics[k])
                   ELSE upTo(k - 1)
    IN upTo(Len(metrics))

\* WeightedParallel when the goroutines of the positions S pass their select
\* before the context is done and the others after
WeightedParallel(metrics, S) ==
    IF Len(metrics) = 0 THEN ZeroMetric ELSE aggregateOf(sums(pick(metrics, S)))

\* no aggregation function has been called on the batch
Fresh == aggOut = NoOutputs /\ \A i \in DOMAIN taskPc : taskPc[i] = "none"

AggBatches == SeqsUpTo(AggMetrics, MaxTasks)

\* Weighted(aggMetrics)
WeightedCall ==
    /\ aggOut.seq = NoReturn
    /\ aggOut' = [aggOut EXCEPT !.seq = Weighted(aggMetrics)]
    /\ UNCHANGED <<aggMetrics, ctxDone, taskPc, acc, breaker, conc, fetch, request,
                   validation>>

\* TrimmedMeanAggregation(aggMetrics, trim)
TrimmedCall(trim) ==
    /\ Fresh
    /\ \E sorted \in sortedByAPY(validOf(aggMetrics)) :
          aggOut' = [aggOut EXCEPT !.trimmed =
                        [trim |-> trim,
                         metric |-> TrimmedMeanAggregation(aggMetrics, trim, sorted)]]
    /\ UNCHANGED <<aggMetrics, ctxDone, taskPc, acc, breaker, conc, fetch, request,
                   validation>>

\* MedianAggregation(aggMetrics)
MedianCall ==
    /\ Fresh
    /\ aggOut' = [aggOut EXCEPT !.median = MedianAggregation(aggMetrics)]
    /\ UNCHANGED <<aggMetrics, ctxDone, taskPc, acc, breaker, conc, fetch, request,
                   validation>>

\* AverageMetrics(aggMetrics)
AverageCall ==
    /\ Fresh
    /\ aggOut' = [aggOut EXCEPT !.average = AverageMetrics(aggMetrics)]
    /\ UNCHANGED <<aggMetrics, ctxDone, taskPc, acc, breaker, conc, fetch, request,
                   validation>>

\* WeightedWithValidation(aggMetrics)
ValidatedCall ==
    /\ Fresh
    /\ aggOut' = [aggOut EXCEPT !.validated =
                     WeightedWithValidation(aggMetrics, AggTime)]
    /\ UNCHANGED <<aggMetrics, ctxDone, taskPc, acc, breaker, conc, fetch, request,
                   validation>>

\* WeightedParallelWithValidation(ctx, aggMetrics), in one step: no goroutine
\* adds its metric once the context is done, and the context may be cancelled
\* at any point of the call
ParValidatedCall ==
    /\ Fresh
    /\ LET valid == ValidateAndFilterMetrics(aggMetrics, AggTime)
       IN \E S \in SUBSET DOMAIN valid :
             /\ ctxDone => S = {}
             /\ ctxDone' = (ctxDone \/ S # DOMAIN valid)
             /\ aggOut' = [aggOut EXCEPT !.parValidated = WeightedParallel(valid, S)]
    /\ UNCHANGED <<aggMetrics, taskPc, acc, breaker, conc, fetch, request, validation>>

\* WeightedParallel(ctx, aggMetrics) up to wg.Wait()
ParStart ==
    /\ aggOut.par = NoReturn
    /\ \A i \in DOMAIN taskPc : taskPc[i] = "none"
    /\ IF Len(aggMetrics) = 0
       THEN /\ aggOut' = [aggOut EXCEPT !.par = ZeroMetric]
            /\ UNCHANGED taskPc
       ELSE /\ taskPc' = [i \in DOMAIN aggMetrics |-> "run"]
            /\ UNCHANGED aggOut
    /\ UNCHANGED <<aggMetrics, ctxDone, acc, breaker, conc, fetch, request,
                   validation>>

\* the goroutine of metrics[i]: it returns at once if the context is done,
\* and adds its metric to the sums under the lock if the metric counts
Task(i) ==
    /\ i \in DOMAIN taskPc
    /\ taskPc[i] = "run"
    /\ taskPc' = [taskPc EXCEPT ![i] = "done"]
    /\ acc' = IF ~ctxDone /\ qualifies(aggMetrics[i])
              THEN accumulate(acc, aggMetrics[i]) ELSE acc
    /\ UNCHANGED <<aggMetrics, ctxDone, aggOut, breaker, conc, fetch, request,
                   validation>>

\* wg.Wait() is over: the aggregate of the sums
ParReturn ==
    /\ aggOut.par = NoReturn
    /\ Len(aggMetrics) > 0
    /\ \A i \in DOMAIN taskPc : taskPc[i] = "done"
    /\ aggOut' = [aggOut EXCEPT !.par = aggregateOf(acc)]
    /\ UNCHANGED <<aggMetrics, ctxDone, taskPc, acc, breaker, conc, fetch, request,
                   validation>>

\* the caller's context is cancelled during the call
CancelCtx ==
    /\ ~ctxDone
    /\ aggOut.par = NoReturn
    /\ ctxDone' = TRUE
    /\ UNCHANGED <<aggMetrics, taskPc, acc, aggOut, breaker, conc, fetch, request,
                   validation>>

AggInit ==
    /\ InitBreaker
    /\ thresholds = [MinProviders |-> 1, MaxStdDevNum |-> 0]
    /\ successThreshold = 1
    /\ onTripCallback = FALSE
    /\ InitConc
    /\ InitFetch("multi")
    /\ InitRequest(TRUE, TRUE)
    /\ InitValidation(<<>>, DefaultValidationOptions, 0)
    /\ \E metrics \in AggBatches, done \in BOOLEAN : InitAggregation(metrics, done)

AggNext ==
    \/ WeightedCall
    \/ ParStart
    \/ \E i \in 1..MaxTasks : Task(i)
    \/ ParReturn
    \/ CancelCtx

AggSpec == AggInit /\ [][AggNext]_vars

\* The other functions of the aggregation package.  They are pure: each is
\* called on a batch no function has been called on.
FnInit ==
    /\ InitBreaker
    /\ thresholds = [MinProviders |-> 1, MaxStdDevNum |-> 0]
    /\ successThreshold = 1
    /\ onTripCallback = FALSE
    /\ InitConc
    /\ InitFetch("multi")
    /\ InitRequest(TRUE, TRUE)
    /\ InitValidation(<<>>, DefaultValidationOptions, 0)
    /\ \E metrics \in AggBatches \cup {OutlierBatch}, done \in BOOLEAN :
          InitAggregation(metrics, done)

FnNext ==
    \/ \E trim \in TrimFractions : TrimmedCall(trim)
    \/ MedianCall
    \/ AverageCall
    \/ ValidatedCall
    \/ ParValidatedCall

FnSpec == FnInit /\ [][FnNext]_vars

\* Every function of the aggregation package
PkgNext ==
    \/ WeightedCall
    \/ ParStart
    \/ \E i \in 1..(MaxTasks + 1) : Task(i)
    \/ ParReturn
    \/ CancelCtx
    \/ FnNext

PkgSpec == FnInit /\ [][PkgNext]_vars

\* ------------------------------------------------------------ the claims
\* The thresholds as the specification states them, on a batch b and a
\* history h, independently of the operators above.

Blocked == state = StateOpen /\ now - lastTrip <= resetDelay

Total(b, f(_)) == LET S[i \in 0..Len(b)] == IF i = 0 THEN 0 ELSE S[i - 1] + f(b[i])
                  IN S[Len(b)]

TVLOf(m) == m.TVL
APYOf(m) == m.APY

FewerThanMin(b) == Len(b) < thresholds.MinProviders

SomeAPYAbove(b) == \E i \in DOMAIN b : b[i].APY > MaxAPY

TVLSwing(b, h) ==
    /\ h # <<>>
    /\ h[Len(h)].TVL > 1
    /\ LET last == h[Len(h)].TVL
           cur == Total(b, TVLOf)
           diff == IF cur >= last THEN cur - last ELSE last - cur
       IN diff * MaxTVLChangeDen > MaxTVLChangeNum * last

\* sample standard deviation (divisor n-1) over the mean above MaxStdDevMultiple
StdDevAbove(b) ==
    /\ thresholds.MaxStdDevNum > 0
    /\ Len(b) >= 2
    /\ LET n == Len(b)
           s == Total(b, APYOf)
           Dev2(m) == (n * m.APY - s) * (n * m.APY - s)
       IN /\ s > 0
          /\ Total(b, Dev2) * MaxStdDevDen * MaxStdDevDen
               > thresholds.MaxStdDevNum * thresholds.MaxStdDevNum * (n - 1) * s * s

Msg(r) == IF r.kind = "error" THEN r.msg ELSE ""

IsTripReason(r) == r.kind = "error" /\ r # ErrOpen /\ r # ErrEmpty

ExpectedReason(b, h) ==
    IF FewerThanMin(b) THEN "insufficient provider count"
    ELSE IF SomeAPYAbove(b) THEN "APY exceeds maximum threshold"
    ELSE IF TVLSwing(b, h) THEN "TVL change too drastic"
    ELSE IF StdDevAbove(b) THEN "APY standard deviation too high"
    ELSE ""

\* C1: while the breaker is Open and no more than resetDelay has passed since
\* the last trip, every Check returns the 'circuit breaker open' error and
\* leaves the state, the trip time, the history, the success counter and the
\* started callbacks as they were.
C1_BlockedCheck ==
    [][LET b == call'.metrics IN
         (Blocked /\ Check(b)) =>
            /\ ret' = ErrOpen
            /\ UNCHANGED <<state, lastTrip, metricsHistory, successCount, callbacks>>]_vars

C1_Witness ==
    /\ call.op = "Check"
    /\ ret = ErrOpen
    /\ state = StateOpen
    /\ now - lastTrip = resetDelay
    /\ metricsHistory # <<>>

\* C2: the breaker leaves Open only by Reset or by a Check made more than
\* resetDelay after the last trip, it enters Half-Open only from Open by
\* such a Check, and no step other than a Check or a Reset (time passing,
\* GetState, LastGoodMetrics, a callback running) changes the state.
C2_LazyHalfOpen ==
    [][/\ (state = StateOpen /\ state' # StateOpen) =>
              \/ Reset
              \/ (now - lastTrip > resetDelay /\ Check(call'.metrics))
       /\ (state # StateHalfOpen /\ state' = StateHalfOpen) =>
              /\ state = StateOpen
              /\ now - lastTrip > resetDelay
              /\ Check(call'.metrics)
       /\ (state' # state) => (Reset \/ Check(call'.metrics))]_vars

C2_Witness ==
    /\ call.op = "Check"
    /\ ret = ErrEmpty
    /\ state = StateHalfOpen
    /\ successCount = 0
    /\ now - lastTrip > resetDelay

\* C3: in a recovery (the first Check made after the delay has passed since
\* a trip, and the Checks that follow it, all of batches violating no
\* threshold) every Check returns nil, the breaker is Half-Open after each of
\* the first successThreshold-1 and Closed with the counter at 0 after the
\* successThreshold-th.
C3_Recovery ==
    /\ [](streak >= 1 =>
             IF streak < successThreshold
             THEN state = StateHalfOpen /\ successCount = streak
             ELSE state = StateClosed /\ successCount = 0)
    /\ [][LET b == call'.metrics IN
            ( /\ Check(b)
              /\ b # <<>>
              /\ ExpectedReason(b, metricsHistory) = ""
              /\ \/ state = StateOpen /\ now - lastTrip > resetDelay
                 \/ state = StateHalfOpen /\ streak >= 1 ) =>
               /\ ret' = NoErr
               /\ streak' = IF state = StateOpen THEN 1 ELSE streak + 1]_vars

C3_Witness ==
    /\ call.op = "Check"
    /\ successThreshold = 2
    /\ streak = 2
    /\ state = StateClosed
    /\ successCount = 0
    /\ Len(metricsHistory) = 2

\* C4: every trip, from Closed or from Half-Open, sets the state to Open,
\* records the time of the trip, and starts the registered callback exactly
\* once with the reason and the batch; the callback is still to run when
\* Check has returned its error.
C4_Trip ==
    [][LET b == call'.metrics IN
         (Check(b) /\ IsTripReason(ret')) =>
            /\ state' = StateOpen
            /\ lastTrip' = now
            /\ callbacks' = callbacks (+)
                  (IF onTripCallback
                   THEN SetToBag({[reason |-> ret', metrics |-> b]})
                   ELSE EmptyBag)]_vars

C4_Witness ==
    /\ call.op = "Check"
    /\ IsTripReason(ret)
    /\ onTripCallback
    /\ state = StateOpen
    /\ lastTrip = now
    /\ successCount = 1
    /\ \E g \in BagToSet(callbacks) : g.reason = ret

\* C5: a Check that evaluates a non-empty batch violating some threshold
\* trips once, with the reason of the first violated check in the order
\* provider count, APY ceiling, TVL change, APY standard deviation.
C5_FirstViolationWins ==
    [][LET b == call'.metrics IN
         (Check(b) /\ ~Blocked /\ b # <<>> /\ ExpectedReason(b, metricsHistory) # "") =>
            /\ Msg(ret') = ExpectedReason(b, metricsHistory)
            /\ state' = StateOpen
            /\ BagCardinality(callbacks') =
                 BagCardinality(callbacks) + (IF onTripCallback THEN 1 ELSE 0)]_vars

C5_Witness ==
    /\ call.op = "Check"
    /\ Msg(ret) = "APY exceeds maximum threshold"
    /\ \E g \in BagToSet(callbacks) :
          /\ g.reason = ret
          /\ ~FewerThanMin(g.metrics)
          /\ SomeAPYAbove(g.metrics)
          /\ TVLSwing(g.metrics, metricsHistory)
          /\ StdDevAbove(g.metrics)

\* C6: LastGoodMetrics returns the most recent batch that passed Check, the
\* metrics as they were offered, and nil when no Check has passed yet.
C6_LastGoodIsLastBatch ==
    call.op = "LastGoodMetrics" => ret.metrics = lastGood

\* C7 as stated: every Check on an empty batch returns 'no metrics provided
\* to circuit breaker' and is not a trip.
C7_EmptyAlwaysNoMetrics ==
    [][Check(<<>>) =>
          /\ ret' = ErrEmpty
          /\ (state' = StateOpen => state = StateOpen)
          /\ UNCHANGED <<lastTrip, callbacks, metricsHistory>>]_vars

\* C7 amended: a Check on an empty batch that is not blocked returns 'no
\* metrics provided to circuit breaker' and is not a trip: the state is not
\* Open afterwards, and the trip time, the started callbacks and the history
\* are unchanged.
C7_EmptyUnblocked ==
    [][(Check(<<>>) /\ ~Blocked) =>
          /\ ret' = ErrEmpty
          /\ state' # StateOpen
          /\ UNCHANGED <<lastTrip, callbacks, metricsHistory>>]_vars

C7_Witness ==
    /\ call.op = "Check"
    /\ ret = ErrEmpty
    /\ state = StateClosed
    /\ thresholds.MinProviders = 2
    /\ metricsHistory # <<>>

C9_APYCeiling ==
    [][LET b == call'.metrics IN
         (Check(b) /\ ~Blocked /\ b # <<>> /\ Len(b) >= thresholds.MinProviders) =>
            IF \E i \in DOMAIN b : b[i].APY > MaxAPY
            THEN state' = StateOpen /\ Msg(ret') = "APY exceeds maximum threshold"
            ELSE Msg(ret') # "APY exceeds maximum threshold"]_vars

C9_Witness ==
    /\ call.op = "Check"
    /\ Msg(ret) = "APY exceeds maximum threshold"
    /\ ret.a = MaxAPY + 1
    /\ state = StateOpen
    /\ \E i \in DOMAIN lastGood : lastGood[i].APY = MaxAPY

\* C10: a Check that evaluates a non-empty batch trips with 'TVL change too
\* drastic' exactly when no earlier check trips, the history is non-empty,
\* the last recorded TVL is above 1.0 and the relative change of the batch's
\* total TVL against it is above MaxTVLChange.
C10_TVLChange ==
    [][LET b == call'.metrics IN
         (Check(b) /\ ~Blocked /\ b # <<>>) =>
            (Msg(ret') = "TVL change too drastic" <=>
               /\ ~FewerThanMin(b)
               /\ ~SomeAPYAbove(b)
               /\ TVLSwing(b, metricsHistory))]_vars

C10_Witness ==
    /\ call.op = "Check"
    /\ Msg(ret) = "TVL change too drastic"
    /\ state = StateOpen
    /\ metricsHistory # <<>>
    /\ metricsHistory[Len(metricsHistory)].TVL > 1
    /\ ret.a > 50

\* C11: a Check that evaluates a non-empty batch trips to Open with 'APY
\* standard deviation too high' exactly when MaxStdDevMultiple is set, the
\* batch has at least 2 metrics, no earlier check trips, and the sample
\* standard deviation of APY (divisor n-1) over the mean APY is above
\* MaxStdDevMultiple; with the threshold unset or a single metric it never
\* trips for that reason.
C11_StdDev ==
    [][LET b == call'.metrics IN
         (Check(b) /\ ~Blocked /\ b # <<>>) =>
            /\ Msg(ret') = "APY standard deviation too high" <=>
                  /\ ~FewerThanMin(b)
                  /\ ~SomeAPYAbove(b)
                  /\ ~TVLSwing(b, metricsHistory)
                  /\ StdDevAbove(b)
            /\ Msg(ret') = "APY standard deviation too high" => state' = StateOpen
            /\ (thresholds.MaxStdDevNum = 0 \/ Len(b) < 2) =>
                  Msg(ret') # "APY standard deviation too high"]_vars

C11_Witness ==
    /\ call.op = "Check"
    /\ Msg(ret) = "APY standard deviation too high"
    /\ state = StateOpen
    /\ Len(call.metrics) = 2
    /\ metricsHistory # <<>>
    /\ metricsHistory[Len(metricsHistory)].TVL > 1

\* the aggregate of a batch: tagged 'aggregated', the total TVL, and the
\* TVL-weighted average APY (rounded down to the unit)
IsAggregateOf(m, b) ==
    LET totalTVL == Total(b, TVLOf)
        APYTVLOf(x) == x.APY * x.TVL
        weighted == Total(b, APYTVLOf)
    IN /\ m.Provider = "aggregated"
       /\ m.TVL = totalTVL
       /\ m.APY * totalTVL <= weighted
       /\ weighted < (m.APY + 1) * totalTVL

\* C12: a new breaker is Closed, and a Check in Closed state on a non-empty
\* batch violating no threshold returns nil, leaves the state Closed and
\* appends exactly one snapshot, the aggregate of the batch, to the history.
C12_ClosedSuccess ==
    /\ [](call.op = "New" => state = StateClosed)
    /\ [][LET b == call'.metrics IN
            ( /\ Check(b)
              /\ state = StateClosed
              /\ b # <<>>
              /\ ExpectedReason(b, metricsHistory) = "" ) =>
               /\ ret' = NoErr
               /\ state' = StateClosed
               /\ Len(metricsHistory') = Len(metricsHistory) + 1
               /\ SubSeq(metricsHistory', 1, Len(metricsHistory)) = metricsHistory
               /\ IsAggregateOf(metricsHistory'[Len(metricsHistory')], b)]_vars

C12_Witness ==
    /\ call.op = "Check"
    /\ ret = NoErr
    /\ state = StateClosed
    /\ lastTrip = ZeroTime
    /\ Len(call.metrics) = 2
    /\ call.metrics[1].APY # call.metrics[2].APY
    /\ call.metrics[1].TVL # call.metrics[2].TVL
    /\ Len(metricsHistory) = 2
    /\ metricsHistory[2] = Metric("aggregated", 4, 4, 0)

\* C13: Reset puts the breaker in Closed with the success counter at 0 from
\* any state, and the Check that follows a Reset is not blocked: it is
\* evaluated against the thresholds.
C13_Reset ==
    [][/\ Reset => (state' = StateClosed /\ successCount' = 0)
       /\ LET b == call'.metrics IN
            (call.op = "Reset" /\ Check(b)) =>
               /\ ret' # ErrOpen
               /\ b # <<>> => Msg(ret') = ExpectedReason(b, metricsHistory)
               /\ b = <<>> => ret' = ErrEmpty]_vars

\* a Check that passed within the reset delay of a trip: the breaker was
\* Open and blocking, Reset closed it, and the Check was evaluated
C13_Witness ==
    /\ call.op = "Check"
    /\ ret = NoErr
    /\ state = StateClosed
    /\ successCount = 0
    /\ lastTrip # ZeroTime
    /\ now - lastTrip <= resetDelay

\* C14: a Check that returns an error while the breaker is Half-Open voids
\* the successes counted before it: afterwards the breaker is Open (and the
\* counter restarts at 0 on the next Half-Open) or the counter is 0.
C14_ErrorVoidsSuccesses ==
    [][LET b == call'.metrics IN
         (Check(b) /\ state = StateHalfOpen /\ ret' # NoErr) =>
            (state' = StateOpen \/ successCount' = 0)]_vars

\* C15: the history never holds more than 100 snapshots, and a passing Check
\* on a full history drops exactly the oldest snapshot, keeps the others in
\* their order and puts the new aggregate last.
C15_BoundedHistory ==
    /\ [](Len(metricsHistory) <= 100)
    /\ [][(CheckStep(call'.metrics) /\ ret' = NoErr /\ Len(metricsHistory) = 100) =>
            /\ Len(metricsHistory') = 100
            /\ SubSeq(metricsHistory', 1, 99) = Tail(metricsHistory)
            /\ IsAggregateOf(metricsHistory'[100], call'.metrics)
            /\ metricsHistory'[100].CollectedAt = now \div TicksPerSecond]_vars

\* a full history whose oldest snapshot is of second 1: every snapshot of
\* second 0 has been evicted
C15_Witness ==
    /\ call.op = "Check"
    /\ ret = NoErr
    /\ Len(metricsHistory) = 100
    /\ metricsHistory[1].CollectedAt = 1

\* C16: with overlapping Checks, the history holds exactly one snapshot for
\* each Check that returned nil, the aggregate of that Check's batch, and the
\* snapshots stand in the order in which those Checks completed.
C16_AppendOrder ==
    /\ Len(metricsHistory) = Len(completed)
    /\ \A i \in DOMAIN completed :
          IsAggregateOf(metricsHistory[i], completed[i].metrics)

\* two snapshots of different batches, the second from a Check that was
\* called before the first one's Check completed
C16_Witness ==
    /\ Len(completed) = 2
    /\ completed[1].metrics # completed[2].metrics
    /\ completed[2].started = 0

\* C17: a chain task of a Fetch started more than the TTL after the upstream
\* fetch that produced the chain's cache entry contacts the chain's
\* providers, whatever Fetch calls were served from the cache in between.
C17_ExpiresAfterUpstream ==
    [][\A c \in Chains :
         ( /\ ChainBegin(c)
           /\ c \in DOMAIN cachedData
           /\ clock - upstreamAt[c] > cacheTTL ) =>
            /\ chainPc'[c] = "wait"
            /\ \A p \in Range(providersOf(c)) : provPc'[p] = "running"]_vars

\* C18: a chain task that finds a cache entry younger than the TTL puts the
\* cached batch on the result channel without error, is done, and starts no
\* provider task.
C18_FreshEntryServed ==
    [][\A c \in Chains :
         ( /\ ChainBegin(c)
           /\ c \in DOMAIN cachedData
           /\ clock - cacheTime[c] < cacheTTL ) =>
            /\ Len(resultCh') = Len(resultCh) + 1
            /\ resultCh'[Len(resultCh')].chain = c
            /\ resultCh'[Len(resultCh')].metrics = cachedData[c]
            /\ ~resultCh'[Len(resultCh')].err
            /\ chainPc'[c] = "done"
            /\ UNCHANGED provPc]_vars

\* the two-metric batch of ethereum served from an entry one minute short
\* of the TTL, no provider of the chain started
C18_Witness ==
    /\ fetchPc = "collect"
    /\ chainPc["ethereum"] = "done"
    /\ provPc["e1"] = "none"
    /\ provPc["e2"] = "none"
    /\ clock - cacheTime["ethereum"] = cacheTTL - 1
    /\ \E i \in DOMAIN resultCh :
          /\ resultCh[i].chain = "ethereum"
          /\ resultCh[i].metrics = cachedData["ethereum"]
          /\ Len(resultCh[i].metrics) = 2

\* The fan-ins as the specification states them, from how the provider
\* tasks ended.
Produced(ps) == {p \in Range(ps) : provPc[p] = "ok"}
Failed(ps) == {p \in Range(ps) : provPc[p] = "fail"}

\* a chain task served from the cache started no provider
ServedFromCache(c) ==
    /\ providersOf(c) # <<>>
    /\ \A p \in Range(providersOf(c)) : provPc[p] = "none"

ChainFailed(c) ==
    /\ ~ServedFromCache(c)
    /\ Produced(providersOf(c)) = {}
    /\ Failed(providersOf(c)) # {} \/ providersOf(c) = <<>>

\* the metrics a chain task contributes to Fetch's result
ChainMetrics(c) ==
    IF ChainFailed(c) THEN {}
    ELSE IF ServedFromCache(c)
    THEN {[cachedData[c][i] EXCEPT !.Chain = c, !.Weight = chains[c].Weight] :
             i \in DOMAIN cachedData[c]}
    ELSE {[Provider |-> p, Chain |-> c, Weight |-> chains[c].Weight,
           CollectedAt |-> clock] : p \in Produced(providersOf(c))}

Enabled == {c \in Chains : chains[c].Enabled}

\* a returned batch holds exactly the metrics of S, each once
HoldsExactly(ms, S) == Len(ms) = Cardinality(S) /\ Range(ms) = S

\* C19: when a fetch has returned, every task it started has ended, and it
\* returned an error exactly if no task produced a metric and some task
\* failed; otherwise it returned, without error, the metrics of all the
\* tasks that succeeded.  This holds for the providers of a chain task, for
\* the chain tasks of Fetch and for the providers of fetchAllMetrics.
C19_PartialFailure ==
    fetchPc = "returned" =>
        /\ \A p \in Providers : provPc[p] # "running"
        /\ mode = "multi" =>
              /\ errors = {c \in Enabled : ChainFailed(c)}
              /\ fetchRet.err <=>
                    /\ UNION {ChainMetrics(c) : c \in Enabled} = {}
                    /\ \E c \in Enabled : ChainFailed(c)
              /\ ~fetchRet.err =>
                    HoldsExactly(fetchRet.metrics,
                                 UNION {ChainMetrics(c) : c \in Enabled})
        /\ mode = "single" =>
              /\ fetchRet.err <=>
                    /\ Produced(serverProviders) = {}
                    /\ Failed(serverProviders) # {}
              /\ ~fetchRet.err =>
                    HoldsExactly(fetchRet.metrics,
                                 {[Provider |-> p, Chain |-> "", Weight |-> 0,
                                   CollectedAt |-> clock] :
                                     p \in Produced(serverProviders)})

\* Fetch returned the one metric of ethereum's second provider: the first
\* provider failed, and so did the chain task of polygon
C19_Witness ==
    /\ fetchPc = "returned"
    /\ mode = "multi"
    /\ provPc["e1"] = "fail"
    /\ provPc["e2"] = "ok"
    /\ provPc["polygon"] = "fail"
    /\ errors = {"polygon"}
    /\ ~fetchRet.err
    /\ Len(fetchRet.metrics) = 1

\* C20: when Fetch has returned, every chain task and every provider task
\* it started has ended and the result channel is empty, also when the
\* context was cancelled while tasks were running.
C20_AllTasksJoined ==
    (fetchPc = "returned" /\ mode = "multi") =>
        /\ \A c \in Chains : chainPc[c] \in {"none", "done"}
        /\ \A c \in Enabled : chainPc[c] = "done"
        /\ \A p \in Providers : provPc[p] # "running"
        /\ resultCh = <<>>

\* Fetch returned after a cancellation that one provider of ethereum had
\* outrun and the other tasks had not
C20_Witness ==
    /\ fetchPc = "returned"
    /\ mode = "multi"
    /\ cancelled
    /\ provPc["e1"] = "ok"
    /\ provPc["e2"] = "fail"
    /\ provPc["polygon"] = "fail"
    /\ \A c \in Enabled : chainPc[c] = "done"

\* C21: every metric Fetch returns carries the chain of the chain task that
\* produced it, whatever tag its provider had set, and the weight of that
\* chain's configuration (1 for a chain without one); its provider and its
\* collection time are those the provider returned.
C21_ChainTagAndWeight ==
    (fetchPc = "returned" /\ mode = "multi" /\ ~fetchRet.err) =>
        \A i \in DOMAIN fetchRet.metrics :
            LET m == fetchRet.metrics[i]
                c == CHOOSE x \in Chains : m.Provider \in Range(providersOf(x))
            IN /\ m.Provider \in Produced(providersOf(c))
                    \/ (ServedFromCache(c) /\ m.Provider \in Range(providersOf(c)))
               /\ m.Chain = c
               /\ m.Weight = IF c \in DOMAIN chains THEN chains[c].Weight ELSE 1
               /\ m.CollectedAt = IF ServedFromCache(c) THEN upstreamAt[c] ELSE clock

\* Fetch returned the metric of ethereum's second provider, which tags its
\* metrics 'mainnet', under the chain's own tag and weight
C21_Witness ==
    /\ fetchPc = "returned"
    /\ mode = "multi"
    /\ provPc["e2"] = "ok"
    /\ providerTag["e2"] = "mainnet"
    /\ \E i \in DOMAIN fetchRet.metrics :
          /\ fetchRet.metrics[i].Provider = "e2"
          /\ fetchRet.metrics[i].Chain = "ethereum"
          /\ fetchRet.metrics[i].Weight = 2

\* C22: when the breaker's Check returns an error, the request is answered
\* from LastGoodMetrics() if that is non-empty, and otherwise ends with an
\* error response; the batch Check rejected never reaches the aggregation.
C22_BreakerBlock ==
    reqLog.rejected # <<>> =>
        /\ reqLog.aggregated # reqLog.rejected
        /\ reqPc \in {"lastgood", "aggregate", "idle"}
        /\ reqPc = "aggregate" =>
              /\ metricsHistory # <<>>
              /\ reqMetrics = metricsHistory
              /\ reqMetrics # reqLog.rejected[1]
        /\ reqPc = "idle" =>
              IF metricsHistory # <<>>
              THEN /\ reqLog.aggregated = <<metricsHistory>>
                   /\ response = OK(aggregateMetrics(metricsHistory, now))
              ELSE /\ reqLog.aggregated = <<>>
                   /\ response.status = 503

\* a request whose batch Check rejected was answered from the history
C22_Witness ==
    /\ reqPc = "idle"
    /\ reqLog.rejected # <<>>
    /\ reqLog.rejected[1] # <<>>
    /\ response.status = 200
    /\ reqLog.aggregated = <<metricsHistory>>

\* C23: when validation is enabled and filters out every fetched metric, the
\* request ends with the 'no valid metrics' error without a call of Check or
\* of the aggregation, and the breaker's state and history stay as they were.
C23_ValidationExhaustion ==
    [][(/\ reqPc = "idle"
        /\ request' # request
        /\ reqLog'.fetched # <<>>
        /\ enableValidation
        /\ ~reqLog'.fetched[1].err
        /\ \A i \in DOMAIN reqLog'.fetched[1].metrics :
              ~isValidMetric(reqLog'.fetched[1].metrics[i],
                             DefaultValidationOptions, Unix(now)))
       => /\ response' =
                errorResponse(503, "No valid metrics available after validation")
          /\ reqPc' = "idle"
          /\ reqLog'.checked = <<>>
          /\ reqLog'.aggregated = <<>>
          /\ UNCHANGED <<state, lastTrip, metricsHistory, successCount, callbacks,
                         call, ret>>]_vars

\* a request whose fetched metrics were all invalid has ended with the error
C23_Witness ==
    /\ enableValidation
    /\ reqPc = "idle"
    /\ reqLog.fetched # <<>>
    /\ ~reqLog.fetched[1].err
    /\ Len(reqLog.fetched[1].metrics) > 0
    /\ FilterInvalid(reqLog.fetched[1].metrics, Unix(now)) = <<>>
    /\ response = errorResponse(503, "No valid metrics available after validation")
    /\ reqLog.checked = <<>>

\* how often x occurs in the sequence ms
Count(ms, x) == Cardinality({i \in DOMAIN ms : ms[i] = x})

\* the two sequences hold the same elements the same number of times
SameMultiset(a, b) == \A x \in Range(a) \cup Range(b) : Count(a, x) = Count(b, x)

\* C24: FilterInvalidConcurrently returns the same metrics, as a multiset, as
\* FilterInvalidWithOptions on the same batch and options, however its
\* workers interleave, below and from 100 metrics on.
C24_ConcurrentSameSurvivors ==
    vPc = "returned" =>
        SameMultiset(concOut.metrics, FilterInvalidWithOptions(vMetrics, vOpts, vNow))

\* the parallel path has returned a batch of 100 or more metrics from which
\* both passes removed something, in another order than the sequential path
C24_Witness ==
    /\ vPc = "returned"
    /\ Len(vMetrics) >= parallelThreshold
    /\ Len(validMetrics) < Len(vMetrics)
    /\ Len(concOut.metrics) < Len(validMetrics)
    /\ concOut.metrics # FilterInvalidWithOptions(vMetrics, vOpts, vNow)

\* C25: applying FilterInvalidWithOptions to its own output, with the same
\* options and at the same time, removes nothing further.
C25_Idempotent ==
    seqOut # NoReturn =>
        FilterInvalidWithOptions(seqOut.metrics, vOpts, vNow) = seqOut.metrics

\* the structural criteria as the claim states them
Survives(m, opts, t) ==
    /\ 0 <= m.APY
    /\ m.APY <= opts.MaxAPY
    /\ m.TVL > opts.MinTVL
    /\ t - m.CollectedAt <= opts.MaxAge
    /\ m.Provider # ""
    /\ opts.RequirePositivePointsPerETH => m.PointsPerETH >= 0

C27_OutlierPassCondition ==
    (seqOut # NoReturn /\ (~vOpts.EnableOutlierDetection \/ Len(seqOut.valid) < 4))
        => seqOut.metrics = seqOut.valid

\* the filter returned four or more valid metrics untouched, outlier
\* detection being disabled, that the statistical pass would have thinned
C27_Witness ==
    /\ seqOut # NoReturn
    /\ ~vOpts.EnableOutlierDetection
    /\ Len(seqOut.valid) >= 4
    /\ seqOut.metrics = seqOut.valid
    /\ filterOutliers(seqOut.valid, vOpts.OutlierIQRMultiplier) # seqOut.valid

\* the claim's a[k] of the batch ms, k counted from 0: the least APY that
\* at least k + 1 metrics of the batch do not exceed
SortedAt(ms, k) ==
    LET atLeast == {v \in {ms[i].APY : i \in DOMAIN ms} :
                      Cardinality({i \in DOMAIN ms : ms[i].APY <= v}) >= k + 1}
    IN CHOOSE v \in atLeast : \A u \in atLeast : v <= u

\* the claim's bounds of the batch ms for the multiplier num/den: whether the
\* mean is used, and what the bounds are made of
Quartiles(ms, num, den) ==
    LET n == Len(ms)
        Q1 == SortedAt(ms, n \div 4)
        Q3 == SortedAt(ms, (3 * n) \div 4)
    IN [n |-> n, Q1 |-> Q1, Q3 |-> Q3, total |-> SumAPY(ms),
        narrow |-> (Q3 - Q1) * (den + 2 * num) < minBoundWidth * den]

\* whether the bounds q hold the APY x
WithinBounds(q, num, den, x) ==
    IF q.narrow
    THEN 2 * q.n * x >= q.total /\ q.n * x <= 2 * q.total
    ELSE /\ den * x >= den * q.Q1 - num * (q.Q3 - q.Q1)
         /\ den * x <= den * q.Q3 + num * (q.Q3 - q.Q1)

InUnitInterval(c) ==
    /\ ~c.nan
    /\ c.den # 0
    /\ c.num * c.den > 0
    /\ c.num * c.den <= c.den * c.den

\* fraction a is at least fraction b, both with positive denominators
AtLeast(a, b) == a.num * b.den >= b.num * a.den

\* the distance of the metric's APY from the TVL-weighted mean APY of ms,
\* in units of 1 / SumTVL(ms)
Distance(m, ms) == Abs(m.APY * SumTVL(ms) - SumAPYTVL(ms))

\* C29: CalculateConfidenceScores on two or more metrics gives every metric a
\* confidence in (0, 1], and a metric closer to the TVL-weighted mean APY
\* never a lower one than a metric farther from it; on a single metric the
\* confidence is 0.
C29_Confidence ==
    scored # NoReturn =>
        LET ms == scored.metrics
        IN /\ Len(ms) = 1 => ms[1].Confidence = Fraction(0, 1)
           /\ Len(ms) >= 2 =>
                 /\ \A i \in DOMAIN ms : InUnitInterval(ms[i].Confidence)
                 /\ \A i, j \in DOMAIN ms :
                       Distance(vMetrics[i], vMetrics) <= Distance(vMetrics[j], vMetrics)
                           => AtLeast(ms[i].Confidence, ms[j].Confidence)

\* C30: WeightedParallel returns what Weighted returns on the same batch,
\* whatever the interleaving of its goroutines and whether or not its
\* context is cancelled.
C30_ParallelSameResult ==
    aggOut.par # NoReturn => aggOut.par = Weighted(aggMetrics)

\* the positions of the metrics of ms with positive TVL and neither a negative
\* APY nor negative points
Qualifying(ms) ==
    {i \in DOMAIN ms : ms[i].TVL > 0 /\ ms[i].APY >= 0 /\ ms[i].PointsPerETH >= 0}

RECURSIVE SumF(_, _)
\* the sum of f[i] over the positions i in S
SumF(f, S) ==
    IF S = {} THEN 0
    ELSE LET i == CHOOSE i \in S : TRUE IN f[i] + SumF(f, S \ {i})

\* q is the quotient num / den, den positive, as the model stores it
QuotientOf(q, num, den) == q * den <= num /\ num < (q + 1) * den

\* out is the TVL-weighted aggregate of the metrics of ms at the positions S
WeightedOver(out, ms, S) ==
    LET total == SumF([i \in S |-> ms[i].TVL], S)
    IN /\ out.Provider = "aggregated"
       /\ IF S = {}
          THEN out.APY = 0 /\ out.TVL = 0 /\ out.PointsPerETH = 0
               /\ out.CollectedAt = 0
          ELSE /\ out.TVL = total
               /\ QuotientOf(out.APY, SumF([i \in S |-> ms[i].APY * ms[i].TVL], S),
                             total)
               /\ QuotientOf(out.PointsPerETH,
                             SumF([i \in S |-> ms[i].PointsPerETH * ms[i].TVL], S),
                             total)
               /\ \E i \in S : out.CollectedAt = ms[i].CollectedAt
               /\ \A i \in S : out.CollectedAt >= ms[i].CollectedAt

TrimRange(f) == f.num > 0 /\ 2 * f.num < f.den

\* out is the weighted aggregate of what is left of the positions Q of ms
\* when the k of least APY and the k of greatest APY are dropped, and
\* something is left
TrimmedOver(out, ms, Q, k) ==
    \E lo, hi \in SUBSET Q :
       /\ Cardinality(lo) = k /\ Cardinality(hi) = k /\ lo \cap hi = {}
       /\ \A i \in lo, j \in Q \ lo : ms[i].APY <= ms[j].APY
       /\ \A i \in hi, j \in Q \ hi : ms[i].APY >= ms[j].APY
       /\ Q \ (lo \cup hi) # {}
       /\ WeightedOver(out, ms, Q \ (lo \cup hi))

\* C32 as the spec states it: TrimmedMeanAggregation is Weighted of the whole
\* batch unless the batch has at least 3 metrics and the trim fraction is in
\* (0, 0.5); otherwise it is Weighted of the qualifying metrics without the
\* floor(n * fraction) of least and of greatest APY, a remainder that is
\* never empty.
C32_TrimmedMeanAsStated ==
    aggOut.trimmed # NoReturn =>
        LET out == aggOut.trimmed.metric
            f == aggOut.trimmed.trim
            Q == Qualifying(aggMetrics)
        IN IF Len(aggMetrics) >= 3 /\ TrimRange(f)
           THEN TrimmedOver(out, aggMetrics, Q, (Cardinality(Q) * f.num) \div f.den)
           ELSE out = Weighted(aggMetrics)

\* C32, amended: TrimmedMeanAggregation is Weighted of the whole batch unless
\* the batch has at least 3 metrics, at least 3 of them qualify and the trim
\* fraction is in (0, 0.5); otherwise it is Weighted of the qualifying
\* metrics without the floor(n * fraction) of least and of greatest APY, a
\* remainder that is never empty.
C32_TrimmedMean ==
    aggOut.trimmed # NoReturn =>
        LET out == aggOut.trimmed.metric
            f == aggOut.trimmed.trim
            Q == Qualifying(aggMetrics)
        IN IF Len(aggMetrics) >= 3 /\ TrimRange(f) /\ Cardinality(Q) >= 3
           THEN TrimmedOver(out, aggMetrics, Q, (Cardinality(Q) * f.num) \div f.den)
           ELSE out = Weighted(aggMetrics)

\* TrimmedMeanAggregation has trimmed a metric from each end of three
\* qualifying metrics, and the result is not Weighted of the batch
C32_Witness ==
    /\ aggOut.trimmed # NoReturn
    /\ TrimRange(aggOut.trimmed.trim)
    /\ Cardinality(Qualifying(aggMetrics)) = 3
    /\ (3 * aggOut.trimmed.trim.num) \div aggOut.trimmed.trim.den = 1
    /\ aggOut.trimmed.metric # Weighted(aggMetrics)

\* the positions of the metrics of ms with positive TVL
Positive(ms) == {i \in DOMAIN ms : ms[i].TVL > 0}

\* the number of positions of P where the field of ms stands in R to v
Below(ms, P, field, v) == Cardinality({i \in P : ms[i][field] < v})
Above(ms, P, field, v) == Cardinality({i \in P : ms[i][field] > v})

\* the fraction x is the median of the field over the positions P of ms: the
\* middle value for an odd count, the mean of the two middle values for an
\* even one, 0 for none
MedianOver(x, ms, P, field) ==
    LET n == Cardinality(P)
        half == n \div 2
    IN /\ ~x.nan /\ x.den > 0
       /\ IF n = 0 THEN x.num = 0
          ELSE IF n % 2 = 1
          THEN \E i \in P :
                  /\ Below(ms, P, field, ms[i][field]) <= half
                  /\ Above(ms, P, field, ms[i][field]) <= half
                  /\ x.num = ms[i][field] * x.den
          ELSE \E i, j \in P :
                  /\ ms[i][field] <= ms[j][field]
                  /\ Below(ms, P, field, ms[i][field]) <= half - 1
                  /\ Above(ms, P, field, ms[i][field]) <= half
                  /\ Below(ms, P, field, ms[j][field]) <= half
                  /\ Above(ms, P, field, ms[j][field]) <= half - 1
                  /\ 2 * x.num = (ms[i][field] + ms[j][field]) * x.den

\* C33: Median of a field over the metrics with TVL > 0 is the middle sorted
\* value for an odd count and the mean of the two middle values for an even
\* count, 0 when no metric has TVL > 0; MedianAggregation applies it to APY,
\* TVL and points independently.
C33_Median ==
    aggOut.median # NoReturn =>
        /\ MedianOver(aggOut.median.APY, aggMetrics, Positive(aggMetrics), "APY")
        /\ MedianOver(aggOut.median.TVL, aggMetrics, Positive(aggMetrics), "TVL")
        /\ MedianOver(aggOut.median.PointsPerETH, aggMetrics, Positive(aggMetrics),
                      "PointsPerETH")

\* MedianAggregation has returned on a batch with a metric of no TVL and two
\* metrics of positive TVL whose APYs differ, and its APY is their mean
C33_Witness ==
    /\ aggOut.median # NoReturn
    /\ Positive(aggMetrics) # DOMAIN aggMetrics
    /\ Cardinality(Positive(aggMetrics)) = 2
    /\ \E i, j \in Positive(aggMetrics) :
          /\ aggMetrics[i].APY < aggMetrics[j].APY
          /\ aggOut.median.APY = Fraction(aggMetrics[i].APY + aggMetrics[j].APY, 2)

\* the metric out, of whole numbers, is a value of provider "aggregated",
\* and all zeros when the batch is empty
Aggregate(out) ==
    /\ out.Provider = "aggregated"
    /\ {out.APY, out.TVL, out.PointsPerETH, out.CollectedAt} \subseteq Int
    /\ aggMetrics = <<>> =>
          out.APY = 0 /\ out.TVL = 0 /\ out.PointsPerETH = 0 /\ out.CollectedAt = 0

\* the same for a metric whose APY, TVL and points are fractions
AggregateOfFractions(out) ==
    /\ out.Provider = "aggregated"
    /\ \A x \in {out.APY, out.TVL, out.PointsPerETH} : ~x.nan /\ x.den > 0
    /\ out.CollectedAt \in Int
    /\ aggMetrics = <<>> =>
          /\ \A x \in {out.APY, out.TVL, out.PointsPerETH} : x.num = 0
          /\ out.CollectedAt = 0

\* C34: every aggregation function (Weighted, WeightedParallel,
\* MedianAggregation, TrimmedMeanAggregation, AverageMetrics and the validated
\* variants) returns a value for every input batch, never an error or a
\* crash, with the provider "aggregated"; on an empty batch the value is all
\* zeros.
C34_AlwaysAValue ==
    /\ Fresh =>
          /\ ENABLED WeightedCall
          /\ ENABLED ParStart
          /\ \A trim \in TrimFractions : ENABLED TrimmedCall(trim)
          /\ ENABLED MedianCall
          /\ ENABLED AverageCall
          /\ ENABLED ValidatedCall
          /\ ENABLED ParValidatedCall
    /\ \A i \in DOMAIN taskPc : taskPc[i] = "run" => ENABLED Task(i)
    /\ (aggOut.par = NoReturn /\ aggMetrics # <<>>
           /\ \A i \in DOMAIN taskPc : taskPc[i] = "done") => ENABLED ParReturn
    /\ aggOut.seq # NoReturn => Aggregate(aggOut.seq)
    /\ aggOut.par # NoReturn => Aggregate(aggOut.par)
    /\ aggOut.trimmed # NoReturn => Aggregate(aggOut.trimmed.metric)
    /\ aggOut.validated # NoReturn => Aggregate(aggOut.validated)
    /\ aggOut.parValidated # NoReturn => Aggregate(aggOut.parValidated)
    /\ aggOut.median # NoReturn => AggregateOfFractions(aggOut.median)
    /\ aggOut.average # NoReturn => AggregateOfFractions(aggOut.average)

\* WeightedWithValidation has returned the zero aggregate on a batch that is
\* not empty and of which no metric is valid
C34_Witness ==
    /\ aggOut.validated = ZeroMetric
    /\ aggMetrics # <<>>
    /\ \A i \in DOMAIN aggMetrics : ~ValidateMetric(aggMetrics[i], AggTime)

\* C35: with overlapping Check calls no batch is evaluated while the breaker
\* is Open inside its reset delay: whenever a Check returns nil and appends
\* its batch to the history, the breaker is Closed or Half-Open at that
\* moment, never Open.
C35_NoSuccessWhileOpen ==
    [][(completed' # completed /\ metricsHistory' # metricsHistory)
          => state' \in {StateClosed, StateHalfOpen}]_vars

====
